---- MODULE Spec2Model ----
(***************************************************************************)
(* A model of the JewOrNotJew harvester: Client.ScrapeAll (the bounded-    *)
(* concurrency sweep and its merge step), Client.scrapeProfile (the fetch  *)
(* unit), the JSON file mirror (saveProfileToJSON / LoadFromDisk), the     *)
(* SQLite upsert DB.InsertProfile, the splitter splitByBullets and the     *)
(* extractor Client.parseProfile.                                          *)
(***************************************************************************)
EXTENDS Integers, Sequences, FiniteSets, TLC

(***************************************************************************)
(* Bounds.  The sweep's three sizes are scaled down from the values the    *)
(* code uses (maxID 10000, totalProfiles 3622, concurrentRequests 10) so   *)
(* that every interleaving of the workers can be enumerated.               *)
(***************************************************************************)
maxID == 2

totalProfiles == 1

concurrentRequests == 2

\* cap(logCh), 100 in the code.
logCapacity == 1

MaxClock == 2

\* http.StatusOK, the only status scrapeProfile accepts.
StatusOK == 200

IDs == 1..maxID

(***************************************************************************)
(* models.Profile.  A nil *Profile is NilProfile.                          *)
(***************************************************************************)
NilProfile ==
    [Name |-> "<nil>", URL |-> "", Verdict |-> "", Description |-> "",
     Pros |-> <<>>, Cons |-> <<>>, Score |-> 0, Category |-> "",
     ImageURL |-> "", CreatedAt |-> 0, UpdatedAt |-> 0]

(***************************************************************************)
(* What parseProfile extracts from the document served for an identifier. *)
(* The extractor itself is a pure function of the document; here its       *)
(* result is the input.  RawDescription stands for a description holding   *)
(* bytes that are not valid UTF-8 (the document is parsed as it is served) *)
(* and CoercedDescription for the same text with each such byte replaced   *)
(* by U+FFFD.                                                              *)
(***************************************************************************)
RawDescription == "d1 \\xe9"

CoercedDescription == "d1 \\ufffd"

Extracted(name, verdict, description, pros, cons, category) ==
    [Name |-> name, Verdict |-> verdict, Description |-> description,
     Pros |-> pros, Cons |-> cons, Category |-> category, ImageURL |-> ""]

PageEmpty == Extracted("", "", "", <<>>, <<>>, "")

PageAnnJew == Extracted("Ann", "Jew", "d1", <<"p1">>, <<>>, "Music")

PageAnnNot == Extracted("Ann", "Not a Jew", "d1", <<"p1">>, <<>>, "Music")

PageAnnPros == Extracted("Ann", "Jew", "d1", <<"p2">>, <<>>, "Film")

PageAnnRaw == Extracted("Ann", "Jew", RawDescription, <<"p1">>, <<>>, "Music")

PageLower == Extracted("ann", "Jew", "d1", <<>>, <<"c1">>, "")

PagePlaceholder == Extracted("Profile 1", "Jew", "d1", <<>>, <<>>, "")

\* The pages a source that changes between requests may serve.
Pages == {PageEmpty, PageAnnJew, PageAnnNot, PageAnnPros, PagePlaceholder}

\* Sources that do not change: the pages of the identifiers, repeated with
\* period 3 over the identifier range.
FixedSources ==
    {<<PageAnnJew, PageLower, PageAnnPros>>,
     <<PageAnnJew, PageAnnPros, PageEmpty>>,
     <<PageAnnJew, PageAnnNot, PageEmpty>>,
     <<PageAnnRaw, PagePlaceholder, PageAnnRaw>>}

SourceOf(row) == [i \in 1..maxID |-> row[((i - 1) % 3) + 1]]

\* An identifier whose document may differ from one request to the next.
AnyPage == Extracted("<any>", "", "", <<>>, <<>>, "")

(***************************************************************************)
(* The outcome of httpClient.Get and io.ReadAll in scrapeProfile.          *)
(***************************************************************************)
Response(getErr, status, readErr) ==
    [getErr |-> getErr, status |-> status, readErr |-> readErr]

NoResponse == Response(FALSE, 0, FALSE)

Responses ==
    {Response(TRUE, 0, FALSE), Response(FALSE, 204, FALSE),
     Response(FALSE, 404, FALSE), Response(FALSE, StatusOK, TRUE),
     Response(FALSE, StatusOK, FALSE)}

VARIABLES
    site,             \* the source: the page behind each identifier, or AnyPage
    disk,             \* dataDir: file name -> file content
    profiles,         \* c.profiles
    mu,               \* c.mu: 0 when free, else the worker holding it
    clock,            \* time.Now()
    run,              \* "first" or "second" invocation of the scraper
    incrementalMode,  \* ScrapeAll's argument
    slots,            \* cap(semaphore)
    target,           \* ScrapeAll's totalProfiles
    cpc,              \* where ScrapeAll's own goroutine is
    id,               \* the dispatch loop's variable
    semaphore,        \* number of slots taken in the semaphore channel
    wg,               \* the WaitGroup's counter
    pc,               \* where the worker goroutine of each identifier is
    resp,             \* each worker's HTTP outcome
    profile,          \* each worker's local profile
    existingProfile,  \* each worker's local existingProfile (NilProfile: !exists)
    class,            \* which counters each worker has incremented
    successCounter, failCounter, skipCounter,
    newCounter, updatedCounter, skippedCounter,
    ret,              \* what ScrapeAll returned
    seenFirst,        \* identities merged by the first run
    saveFailedFirst,  \* whether a saveProfileToJSON of the first run returned an error
    dbProfiles,       \* table profiles: name -> row
    dbPros,           \* table pros: rows <<profile_id, text>> in insertion order
    dbCons,           \* table cons, likewise
    dbCall,           \* the last InsertProfile: its argument and whether it failed
    text,             \* splitByBullets: its argument
    items,            \* splitByBullets: what it returned
    spc,              \* where the call of splitByBullets is
    doc,              \* parseProfile: the document
    parsed,           \* parseProfile: the fields of profile set so far
    ppc,              \* where the call of parseProfile is
    logFile,          \* ScrapeAll's log file: "none", "open", "failed", "closed"
    logCh,            \* the messages buffered in logCh
    logOpen,          \* logCh exists and is not closed
    logDropped,       \* the messages log dropped
    logFault          \* a send on the closed logCh

counters ==
    <<successCounter, failCounter, skipCounter, newCounter, updatedCounter,
      skippedCounter>>

locals == <<resp, profile, existingProfile, class>>

history == <<seenFirst, saveFailedFirst>>

db == <<dbProfiles, dbPros, dbCons, dbCall>>

extraction == <<text, items, spc, doc, parsed, ppc>>

logging == <<logFile, logCh, logOpen, logDropped, logFault>>

\* Everything but the log.
scraper ==
    <<site, disk, profiles, mu, clock, run, incrementalMode, slots, target,
      extraction, cpc, id, semaphore, wg, pc, counters, locals, ret, history,
      db>>

vars == <<scraper, logging>>


(***************************************************************************)
(* Small helpers.                                                          *)
(***************************************************************************)
Put(m, k, v) == (k :> v) @@ m

Has(m, k) == k \in DOMAIN m

EmptyMap == [k \in {} |-> NilProfile]

\* time.Now().Format(time.RFC3339): the clock in whole seconds.  Successive
\* readings never decrease; two readings may fall in the same second.
Readings == {t \in {clock, clock + 1} : t <= MaxClock}

(***************************************************************************)
(* scrapeProfile, lines 346-402.                                           *)
(***************************************************************************)
ProfileURL(i) == "http://jewornotjew.com/profile.jsp?ID=" \o ToString(i)

PlaceholderName(i) == "Profile " \o ToString(i)

\* Mutant: any 2xx status is accepted.
FetchFailed_Non2xx(r) ==
    r.getErr \/ r.status \notin 200..299 \/ r.readErr

\* The error returns of scrapeProfile: the request failed, the status is
\* not http.StatusOK, or the body could not be read.
FetchFailed(r) == r.getErr \/ r.status # StatusOK \/ r.readErr

\* The profile scrapeProfile returns for identifier i when the extraction
\* of its document is page and the clock reads now.
ScrapedProfile(i, page, now) ==
    [Name |-> IF page.Name = "" THEN PlaceholderName(i) ELSE page.Name,
     URL |-> ProfileURL(i),
     Verdict |-> page.Verdict,
     Description |-> page.Description,
     Pros |-> page.Pros,
     Cons |-> page.Cons,
     Score |-> i,
     Category |-> page.Category,
     ImageURL |-> page.ImageURL,
     CreatedAt |-> now,
     UpdatedAt |-> now]

\* Mutant: only a nil profile or an empty name is skipped.
IsEmptyOutcome_EmptyNameOnly(i, p) == p = NilProfile \/ p.Name = ""

\* The skip test of the worker, line 227.
IsEmptyOutcome(i, p) ==
    p = NilProfile \/ p.Name = "" \/ p.Name = PlaceholderName(i)

(***************************************************************************)
(* The merge step of the worker, lines 236-277.                            *)
(***************************************************************************)
\* Mutant: profiles are keyed by their URL.
KeyOf_URL(p) == p.URL

\* The key a profile is stored under in c.profiles.
KeyOf(p) == p.Name

\* Mutant: the pros are compared item by item, not by their number.
NeedsUpdate_ProsContent(old, new) ==
    \/ old.Verdict # new.Verdict
    \/ old.Description # new.Description
    \/ old.Pros # new.Pros
    \/ Len(old.Cons) # Len(new.Cons)

\* The comparison of lines 253-256.
NeedsUpdate(old, new) ==
    \/ old.Verdict # new.Verdict
    \/ old.Description # new.Description
    \/ Len(old.Pros) # Len(new.Pros)
    \/ Len(old.Cons) # Len(new.Cons)

\* Mutant: the update keeps the creation date of the new scrape.
UpdatedProfile_FreshCreatedAt(old, new, now) ==
    [new EXCEPT !.UpdatedAt = now]

\* Mutant: the update does not refresh the update date.
UpdatedProfile_StaleUpdatedAt(old, new, now) ==
    [new EXCEPT !.CreatedAt = old.CreatedAt]

\* Lines 259-260: the scraped profile as it is stored by an update.
UpdatedProfile(old, new, now) ==
    [new EXCEPT !.CreatedAt = old.CreatedAt, !.UpdatedAt = now]

(***************************************************************************)
(* The JSON file mirror: saveProfileToJSON (lines 1142-1182) and           *)
(* LoadFromDisk (lines 1215-1241).                                         *)
(***************************************************************************)
\* url.PathEscape on the identities of the model: a space becomes %20.
PathEscape(name) ==
    IF name = "Profile 1" THEN "Profile%201" ELSE name

FileName(name) == PathEscape(name) \o ".json"

\* os.ReadDir returns the entries sorted by file name.
FileOrder == <<FileName("Ann"), FileName("Profile 1"), FileName("ann")>>

\* encoding/json writes a string coerced to valid UTF-8.
ToValidUTF8(s) == IF s = RawDescription THEN CoercedDescription ELSE s

\* encoding/json writes a nil slice as null and reads null as a nil slice.
JSONArray(s) == [isNull |-> s = <<>>, items |-> s]

FromJSONArray(a) == IF a.isNull THEN <<>> ELSE a.items

\* json.MarshalIndent(profile).
Marshal(p) ==
    [name |-> ToValidUTF8(p.Name),
     url |-> ToValidUTF8(p.URL),
     verdict |-> ToValidUTF8(p.Verdict),
     description |-> ToValidUTF8(p.Description),
     pros |-> JSONArray(p.Pros),
     cons |-> JSONArray(p.Cons),
     score |-> p.Score,
     category |-> ToValidUTF8(p.Category),
     image_url |-> ToValidUTF8(p.ImageURL),
     created_at |-> p.CreatedAt,
     updated_at |-> p.UpdatedAt]

\* json.Unmarshal(data, &profile).
Unmarshal(d) ==
    [Name |-> d.name,
     URL |-> d.url,
     Verdict |-> d.verdict,
     Description |-> d.description,
     Pros |-> FromJSONArray(d.pros),
     Cons |-> FromJSONArray(d.cons),
     Score |-> d.score,
     Category |-> d.category,
     ImageURL |-> d.image_url,
     CreatedAt |-> d.created_at,
     UpdatedAt |-> d.updated_at]

\* A file os.WriteFile truncated and then failed to fill: not JSON.
TruncatedFile == [Marshal(NilProfile) EXCEPT !.name = "<truncated>"]

\* The loop of LoadFromDisk from the i-th directory entry on: it stops, with
\* an error, at the first file that does not unmarshal.
RECURSIVE LoadFrom(_, _, _)
LoadFrom(files, i, acc) ==
    IF i > Len(FileOrder) THEN acc
    ELSE IF ~Has(files, FileOrder[i]) THEN LoadFrom(files, i + 1, acc)
    ELSE IF files[FileOrder[i]] = TruncatedFile THEN acc
    ELSE LET p == Unmarshal(files[FileOrder[i]])
         IN  LoadFrom(files, i + 1, Put(acc, KeyOf(p), p))

\* Mutant: nothing is loaded.
LoadFromDisk_Nothing(files, into) == into

LoadFromDisk(files, into) == LoadFrom(files, 1, into)

\* What saveProfileToJSON leaves in dataDir: the file written, or, when
\* os.WriteFile fails, the directory as it was or the file truncated.
SaveOutcomes(files, p) ==
    IF p = NilProfile \/ p.Name = ""
    THEN [ok : {FALSE}, files : {files}]
    ELSE [ok : {TRUE}, files : {Put(files, FileName(p.Name), Marshal(p))}]
         \cup [ok : {FALSE},
               files : {files, Put(files, FileName(p.Name), TruncatedFile)}]


(***************************************************************************)
(* The state after NewClient, before the first ScrapeAll.                  *)
(***************************************************************************)
\* dataDir as an earlier run left it, holding Ann.
PriorDisk == FileName("Ann") :> Marshal(ScrapedProfile(1, PageAnnJew, 1))

\* ScrapeAll has not made its log yet.
NoLog ==
    /\ logFile = "none"
    /\ logCh = 0
    /\ logOpen = FALSE
    /\ logDropped = 0
    /\ logFault = FALSE

Constructed ==
    /\ profiles = EmptyMap
    /\ mu = 0
    /\ clock = 1
    /\ run = "first"
    /\ cpc = "start"
    /\ id = 1
    /\ semaphore = 0
    /\ wg = 0
    /\ pc = [i \in IDs |-> "idle"]
    /\ resp = [i \in IDs |-> NoResponse]
    /\ profile = [i \in IDs |-> NilProfile]
    /\ existingProfile = [i \in IDs |-> NilProfile]
    /\ class = [i \in IDs |-> "none"]
    /\ successCounter = 0
    /\ failCounter = 0
    /\ skipCounter = 0
    /\ newCounter = 0
    /\ updatedCounter = 0
    /\ skippedCounter = 0
    /\ ret = "none"
    /\ seenFirst = {}
    /\ saveFailedFirst = FALSE
    /\ dbProfiles = EmptyMap
    /\ dbPros = <<>>
    /\ dbCons = <<>>
    /\ dbCall = [arg |-> NilProfile, err |-> FALSE]

\* The goquery document before any is parsed, and a profile with no field set.
NoDocument ==
    [title |-> <<>>, hasMeta |-> FALSE, meta |-> <<>>, keywords |-> <<>>,
     elements |-> <<>>]

NoFields ==
    [Name |-> <<>>, Verdict |-> <<>>, Description |-> <<>>, Pros |-> <<>>,
     Cons |-> <<>>, Category |-> <<>>]

\* Neither splitByBullets nor parseProfile is being followed.
NotExtracting ==
    /\ text = <<>>
    /\ items = <<>>
    /\ spc = "idle"
    /\ doc = NoDocument
    /\ parsed = NoFields
    /\ ppc = "idle"

\* One run against a source that may serve any page for any identifier.
Init ==
    /\ site = [i \in IDs |-> AnyPage]
    /\ disk = PriorDisk
    /\ incrementalMode \in BOOLEAN
    /\ slots = concurrentRequests
    /\ target = totalProfiles
    /\ Constructed
    /\ NoLog
    /\ NotExtracting

\* Two runs in incremental mode against a source that does not change.
InitRuns ==
    /\ site \in {SourceOf(row) : row \in FixedSources}
    /\ disk \in {EmptyMap, PriorDisk}
    /\ incrementalMode = TRUE
    /\ slots = concurrentRequests
    /\ target = totalProfiles
    /\ Constructed
    /\ NoLog
    /\ NotExtracting

(***************************************************************************)
(* ScrapeAll's own goroutine.                                              *)
(***************************************************************************)
\* Lines 85-197: the incremental load (its error is only printed), then
\* the set-up of the semaphore, the counters and the rate limiter.
Start ==
    /\ cpc = "start"
    /\ profiles' = IF incrementalMode THEN LoadFromDisk(disk, profiles)
                   ELSE profiles
    /\ cpc' = "check"
    /\ UNCHANGED <<site, disk, mu, clock, run, incrementalMode, slots, target,
                   extraction, id, semaphore, wg, pc, counters, locals, ret,
                   history, db>>

\* Mutant: the loop ignores successCounter.
LoopCheck_NoStop ==
    /\ cpc = "check"
    /\ cpc' = IF id <= maxID THEN "acquire" ELSE "wait"
    /\ UNCHANGED <<site, disk, profiles, mu, clock, run, incrementalMode,
                   slots, target, extraction, id, semaphore, wg, pc, counters,
                   locals, ret, history, db>>

\* Mutant: the loop stops only when successCounter is above the target.
LoopCheck_StopAbove ==
    /\ cpc = "check"
    /\ cpc' = IF id <= maxID /\ successCounter <= target
              THEN "acquire" ELSE "wait"
    /\ UNCHANGED <<site, disk, profiles, mu, clock, run, incrementalMode,
                   slots, target, extraction, id, semaphore, wg, pc, counters,
                   locals, ret, history, db>>

\* Lines 199-203: the loop condition and the early stop.
LoopCheck ==
    /\ cpc = "check"
    /\ cpc' = IF id <= maxID /\ successCounter < target
              THEN "acquire" ELSE "wait"
    /\ UNCHANGED <<site, disk, profiles, mu, clock, run, incrementalMode,
                   slots, target, extraction, id, semaphore, wg, pc, counters,
                   locals, ret, history, db>>

\* Mutant: the goroutine is started without a semaphore slot.
Dispatch_NoGate ==
    /\ cpc = "acquire"
    /\ wg' = wg + 1
    /\ pc' = [pc EXCEPT ![id] = "fetch"]
    /\ id' = id + 1
    /\ cpc' = "check"
    /\ semaphore' = IF semaphore < slots THEN semaphore + 1 ELSE semaphore
    /\ UNCHANGED <<site, disk, profiles, mu, clock, run, incrementalMode,
                   slots, target, extraction, counters, locals, ret, history,
                   db>>

\* Lines 205-212 and 278: the rate-limit tick, a semaphore slot, wg.Add(1)
\* and the go statement; then id++.
Dispatch ==
    /\ cpc = "acquire"
    /\ semaphore < slots
    /\ semaphore' = semaphore + 1
    /\ wg' = wg + 1
    /\ pc' = [pc EXCEPT ![id] = "fetch"]
    /\ id' = id + 1
    /\ cpc' = "check"
    /\ UNCHANGED <<site, disk, profiles, mu, clock, run, incrementalMode,
                   slots, target, extraction, counters, locals, ret, history,
                   db>>

\* Lines 281-301: wg.Wait(), the final counts, return nil.
WaitAndReturn ==
    /\ cpc = "wait"
    /\ wg = 0
    /\ cpc' = "done"
    /\ ret' = "nil"
    /\ UNCHANGED <<site, disk, profiles, mu, clock, run, incrementalMode,
                   slots, target, extraction, id, semaphore, wg, pc, counters,
                   locals, history, db>>

(***************************************************************************)
(* The worker goroutine of identifier w, lines 212-278.                    *)
(***************************************************************************)
\* Mutant: a failed fetch ends the run with an error.
OnFetchError_Aborts(w) ==
    /\ failCounter' = failCounter + 1
    /\ class' = [class EXCEPT ![w] = "failed"]
    /\ pc' = [pc EXCEPT ![w] = "exit"]
    /\ cpc' = "done"
    /\ ret' = "error"
    /\ UNCHANGED <<clock, profile, successCounter, skipCounter>>

\* Mutant: a failed fetch is counted and tried again.
OnFetchError_Retries(w) ==
    /\ failCounter' = failCounter + 1
    /\ class' = [class EXCEPT ![w] = "failed"]
    /\ pc' = [pc EXCEPT ![w] = "fetch"]
    /\ UNCHANGED <<clock, profile, successCounter, skipCounter, cpc, ret>>

\* Lines 220-225: scrapeProfile returned an error.
OnFetchError(w) ==
    /\ failCounter' = failCounter + 1
    /\ class' = [class EXCEPT ![w] = "failed"]
    /\ pc' = [pc EXCEPT ![w] = "exit"]
    /\ UNCHANGED <<clock, profile, successCounter, skipCounter, cpc, ret>>

\* Mutant: a profile is counted as skipped and, when it is not empty, as a
\* success too.
OnFetched_CountsTwice(w, p) ==
    /\ skipCounter' = skipCounter + 1
    /\ IF IsEmptyOutcome(w, p)
       THEN /\ class' = [class EXCEPT ![w] = "skipped"]
            /\ pc' = [pc EXCEPT ![w] = "exit"]
            /\ UNCHANGED successCounter
       ELSE /\ successCounter' = successCounter + 1
            /\ class' = [class EXCEPT ![w] = "success"]
            /\ pc' = [pc EXCEPT ![w] = "lock"]

\* Lines 227-233: the profile is skipped, or counted as a success.
OnFetched(w, p) ==
    IF IsEmptyOutcome(w, p)
    THEN /\ skipCounter' = skipCounter + 1
         /\ class' = [class EXCEPT ![w] = "skipped"]
         /\ pc' = [pc EXCEPT ![w] = "exit"]
         /\ UNCHANGED successCounter
    ELSE /\ successCounter' = successCounter + 1
         /\ class' = [class EXCEPT ![w] = "success"]
         /\ pc' = [pc EXCEPT ![w] = "lock"]
         /\ UNCHANGED skipCounter

\* Line 219 with what follows up to the first use of c.mu: the request, the
\* extraction of the document the source holds for w, the time stamps.
Fetch(w) ==
    /\ pc[w] = "fetch"
    /\ \E r \in Responses :
        /\ resp' = [resp EXCEPT ![w] = r]
        /\ IF FetchFailed(r)
           THEN OnFetchError(w)
           ELSE \E page \in (IF site[w] = AnyPage THEN Pages ELSE {site[w]}),
                   now \in Readings :
                    /\ clock' = now
                    /\ profile' = [profile EXCEPT
                                     ![w] = ScrapedProfile(w, page, now)]
                    /\ OnFetched(w, profile'[w])
                    /\ UNCHANGED <<failCounter, cpc, ret>>
    /\ UNCHANGED <<site, disk, profiles, mu, run, incrementalMode, slots,
                   target, extraction, id, semaphore, wg, existingProfile,
                   newCounter, updatedCounter, skippedCounter, history, db>>

\* Mutant: c.mu.Lock() never blocks.
LockFree_Always == TRUE

\* c.mu.Lock() succeeds only while no goroutine holds the mutex.
LockFree == mu = 0

\* Lines 236-237: c.mu.Lock() and the lookup.
Lock(w) ==
    /\ pc[w] = "lock"
    /\ LockFree
    /\ mu' = w
    /\ existingProfile' =
         [existingProfile EXCEPT
            ![w] = IF Has(profiles, KeyOf(profile[w]))
                   THEN profiles[KeyOf(profile[w])] ELSE NilProfile]
    /\ pc' = [pc EXCEPT ![w] = "merge"]
    /\ UNCHANGED <<site, disk, profiles, clock, run, incrementalMode, slots,
                   target, extraction, cpc, id, semaphore, wg, counters, resp,
                   profile, class, ret, history, db>>

\* Lines 239-250: the identity is not in c.profiles.
MergeNew(w, p) ==
    /\ profiles' = Put(profiles, KeyOf(p), p)
    /\ newCounter' = newCounter + 1
    /\ class' = [class EXCEPT ![w] = "new"]
    /\ pc' = [pc EXCEPT ![w] = "save"]
    /\ UNCHANGED <<clock, profile, updatedCounter, skippedCounter>>

\* Lines 253-270: the stored profile differs and is replaced.
MergeUpdated(w, old, p) ==
    \E now \in Readings :
        /\ clock' = now
        /\ profile' = [profile EXCEPT ![w] = UpdatedProfile(old, p, now)]
        /\ profiles' = Put(profiles, KeyOf(p), profile'[w])
        /\ updatedCounter' = updatedCounter + 1
        /\ class' = [class EXCEPT ![w] = "updated"]
        /\ pc' = [pc EXCEPT ![w] = "save"]
        /\ UNCHANGED <<newCounter, skippedCounter>>

\* Mutant: an unchanged profile is saved too.
MergeUnchanged_Saves(w) ==
    /\ skippedCounter' = skippedCounter + 1
    /\ class' = [class EXCEPT ![w] = "unchanged"]
    /\ pc' = [pc EXCEPT ![w] = "save"]
    /\ UNCHANGED <<profiles, disk, clock, profile, newCounter,
                   updatedCounter>>

\* Lines 271-276: the stored profile has not changed.
MergeUnchanged(w) ==
    /\ skippedCounter' = skippedCounter + 1
    /\ class' = [class EXCEPT ![w] = "unchanged"]
    /\ pc' = [pc EXCEPT ![w] = "exit"]
    /\ UNCHANGED <<profiles, disk, clock, profile, newCounter,
                   updatedCounter>>

\* Lines 239-277 up to the save: the three branches, each ending with
\* c.mu.Unlock() and its counter.
Merge(w) ==
    /\ pc[w] = "merge"
    /\ LET p == profile[w]
           old == existingProfile[w]
       IN  IF old = NilProfile THEN MergeNew(w, p) /\ UNCHANGED disk
           ELSE IF NeedsUpdate(old, p)
           THEN MergeUpdated(w, old, p) /\ UNCHANGED disk
           ELSE MergeUnchanged(w)
    /\ mu' = 0
    /\ seenFirst' = IF run = "first" THEN seenFirst \cup {profile[w].Name}
                    ELSE seenFirst
    /\ UNCHANGED <<site, run, incrementalMode, slots, target, extraction, cpc,
                   id, semaphore, wg, resp, existingProfile, successCounter,
                   failCounter, skipCounter, ret, saveFailedFirst, db>>

\* Lines 248-250 and 268-270: saveProfileToJSON; its error is only logged.
Save(w) ==
    /\ pc[w] = "save"
    /\ \E o \in SaveOutcomes(disk, profile[w]) :
        /\ disk' = o.files
        /\ saveFailedFirst' = (saveFailedFirst \/ (run = "first" /\ ~o.ok))
    /\ pc' = [pc EXCEPT ![w] = "exit"]
    /\ UNCHANGED <<site, profiles, mu, clock, run, incrementalMode, slots,
                   target, extraction, cpc, id, semaphore, wg, counters,
                   locals, ret, seenFirst, db>>

\* Mutant: the goroutine returns without calling wg.Done().
Exit_NoDone(w) ==
    /\ pc[w] = "exit"
    /\ semaphore' = semaphore - 1
    /\ pc' = [pc EXCEPT ![w] = "done"]
    /\ resp' = [resp EXCEPT ![w] = NoResponse]
    /\ profile' = [profile EXCEPT ![w] = NilProfile]
    /\ existingProfile' = [existingProfile EXCEPT ![w] = NilProfile]
    /\ class' = [class EXCEPT ![w] = "none"]
    /\ UNCHANGED <<site, disk, profiles, mu, clock, run, incrementalMode,
                   slots, target, extraction, cpc, id, wg, counters, ret,
                   history, db>>

\* Lines 214-217: the deferred release of the slot and wg.Done(); the
\* goroutine's locals are gone.
Exit(w) ==
    /\ pc[w] = "exit"
    /\ semaphore' = semaphore - 1
    /\ wg' = wg - 1
    /\ pc' = [pc EXCEPT ![w] = "done"]
    /\ resp' = [resp EXCEPT ![w] = NoResponse]
    /\ profile' = [profile EXCEPT ![w] = NilProfile]
    /\ existingProfile' = [existingProfile EXCEPT ![w] = NilProfile]
    /\ class' = [class EXCEPT ![w] = "none"]
    /\ UNCHANGED <<site, disk, profiles, mu, clock, run, incrementalMode,
                   slots, target, extraction, cpc, id, counters, ret, history,
                   db>>

(***************************************************************************)
(* The scraper is started again (cmd/scraper): a new process, a new        *)
(* Client, the same dataDir and the same source.                           *)
(***************************************************************************)
Rerun ==
    /\ cpc = "done"
    /\ run = "first"
    /\ run' = "second"
    /\ profiles' = EmptyMap
    /\ cpc' = "start"
    /\ id' = 1
    /\ pc' = [i \in IDs |-> "idle"]
    /\ successCounter' = 0
    /\ failCounter' = 0
    /\ skipCounter' = 0
    /\ newCounter' = 0
    /\ updatedCounter' = 0
    /\ skippedCounter' = 0
    /\ ret' = "none"
    /\ UNCHANGED <<site, disk, mu, clock, incrementalMode, slots, target,
                   extraction, semaphore, wg, locals, history, db>>

\* The sweep without its log: log never waits and nothing reads the log
\* back, so the sweep is the same with and without it (NextLog has it).
Next ==
    \/ Start /\ UNCHANGED logging
    \/ LoopCheck /\ UNCHANGED logging
    \/ Dispatch /\ UNCHANGED logging
    \/ WaitAndReturn /\ UNCHANGED logging
    \/ \E w \in IDs : Fetch(w) /\ UNCHANGED logging
    \/ \E w \in IDs : Lock(w) /\ UNCHANGED logging
    \/ \E w \in IDs : Merge(w) /\ UNCHANGED logging
    \/ \E w \in IDs : Save(w) /\ UNCHANGED logging
    \/ \E w \in IDs : Exit(w) /\ UNCHANGED logging

Spec == Init /\ [][Next]_vars

NextRuns ==
    \/ Next
    \/ Rerun /\ UNCHANGED logging

SpecRuns == InitRuns /\ [][NextRuns]_vars

(***************************************************************************)
(* DB.InsertProfile, src/pkg/db/db.go lines 73-179, on the schema of       *)
(* InitSchema (lines 31-71).  One call is one transaction: it commits, or  *)
(* a statement fails and the deferred Rollback undoes it.                  *)
(***************************************************************************)
\* Mutant: the conflict clause also sets created_at = excluded.created_at.
Upsert_OverwritesCreatedAt(tbl, p) ==
    Put(tbl, p.Name,
        [id |-> IF Has(tbl, p.Name) THEN tbl[p.Name].id
                ELSE Cardinality(DOMAIN tbl) + 1,
         name |-> p.Name,
         url |-> p.URL,
         verdict |-> p.Verdict,
         description |-> p.Description,
         score |-> p.Score,
         category |-> p.Category,
         image_url |-> p.ImageURL,
         created_at |-> p.CreatedAt,
         updated_at |-> p.UpdatedAt])

\* Lines 82-109: INSERT ... ON CONFLICT(name) DO UPDATE SET every column
\* but name and created_at.  A new row takes the next AUTOINCREMENT id.
Upsert(tbl, p) ==
    IF Has(tbl, p.Name)
    THEN Put(tbl, p.Name,
             [tbl[p.Name] EXCEPT !.url = p.URL,
                                 !.verdict = p.Verdict,
                                 !.description = p.Description,
                                 !.score = p.Score,
                                 !.category = p.Category,
                                 !.image_url = p.ImageURL,
                                 !.updated_at = p.UpdatedAt])
    ELSE Put(tbl, p.Name,
             [id |-> Cardinality(DOMAIN tbl) + 1,
              name |-> p.Name,
              url |-> p.URL,
              verdict |-> p.Verdict,
              description |-> p.Description,
              score |-> p.Score,
              category |-> p.Category,
              image_url |-> p.ImageURL,
              created_at |-> p.CreatedAt,
              updated_at |-> p.UpdatedAt])

\* Lines 130-135: DELETE FROM pros/cons WHERE profile_id = ?.
DeleteRows(rows, pid) == SelectSeq(rows, LAMBDA r : r[1] # pid)

\* Lines 145-172: one INSERT per item, in order.
InsertRows(rows, pid, texts) ==
    rows \o [i \in 1..Len(texts) |-> <<pid, texts[i]>>]

\* Lines 114-142: the row exists after the upsert, so its id is read back
\* and its pros and cons are deleted before the new ones are inserted.
ReplaceItems(rows, tbl, p, texts) ==
    IF Has(tbl, p.Name)
    THEN InsertRows(DeleteRows(rows, tbl[p.Name].id), tbl[p.Name].id, texts)
    ELSE InsertRows(rows, Cardinality(DOMAIN tbl), texts)

InsertProfile(p) ==
    /\ \E err \in BOOLEAN :
        /\ dbCall' = [arg |-> p, err |-> err]
        /\ IF err
           THEN UNCHANGED <<dbProfiles, dbPros, dbCons>>
           ELSE /\ dbProfiles' = Upsert(dbProfiles, p)
                /\ dbPros' = ReplaceItems(dbPros, dbProfiles', p, p.Pros)
                /\ dbCons' = ReplaceItems(dbCons, dbProfiles', p, p.Cons)
    /\ UNCHANGED <<site, disk, profiles, mu, clock, run, incrementalMode,
                   slots, target, extraction, cpc, id, semaphore, wg, pc,
                   counters, locals, ret, history>>

\* The profiles cmd/scraper hands to InsertProfile: what the scraper holds.
DBInputs ==
    UNION {{[ScrapedProfile(i, page, c) EXCEPT !.UpdatedAt = u] :
                i \in {1, maxID},
                page \in {PageAnnJew, PageAnnPros, PageLower},
                u \in {c, MaxClock}} : c \in 1..MaxClock}

InitDB ==
    /\ site = [i \in IDs |-> AnyPage]
    /\ disk = EmptyMap
    /\ incrementalMode = TRUE
    /\ slots = concurrentRequests
    /\ target = totalProfiles
    /\ Constructed
    /\ NoLog
    /\ NotExtracting

NextDB == \E p \in DBInputs : InsertProfile(p) /\ UNCHANGED logging

SpecDB == InitDB /\ [][NextDB]_vars


\* One run against a source that does not change, with a semaphore of any
\* capacity up to concurrentRequests.  The sources: one where two
\* identifiers yield the same identity, one with an identity-less page.
SweepSources ==
    {<<PageAnnJew, PageAnnPros, PageEmpty>>,
     <<PageAnnRaw, PagePlaceholder, PageAnnRaw>>}

InitSweep ==
    /\ site \in {SourceOf(row) : row \in SweepSources}
    /\ disk = PriorDisk
    /\ incrementalMode \in BOOLEAN
    /\ slots \in 1..concurrentRequests
    /\ target = totalProfiles
    /\ Constructed
    /\ NoLog
    /\ NotExtracting

SpecSweep == InitSweep /\ [][Next]_vars

\* The Go scheduler runs every goroutine that can take a step, the HTTP
\* client's timeout makes every request return, and a goroutine blocked in
\* c.mu.Lock() gets the mutex after finitely many unlocks.
\* The sweep for every target up to totalProfiles and every capacity of the
\* semaphore, so that the range is longer than target plus capacity.
InitStop ==
    /\ site \in {SourceOf(row) : row \in SweepSources}
    /\ disk = PriorDisk
    /\ incrementalMode \in BOOLEAN
    /\ slots \in 1..concurrentRequests
    /\ target \in 0..totalProfiles
    /\ Constructed
    /\ NoLog
    /\ NotExtracting

SpecStop == InitStop /\ [][Next]_vars

Fairness ==
    /\ WF_scraper(Start \/ LoopCheck \/ Dispatch \/ WaitAndReturn)
    /\ \A w \in IDs :
        /\ WF_scraper(Fetch(w) \/ Merge(w) \/ Save(w) \/ Exit(w))
        /\ SF_scraper(Lock(w))

SpecSweepFair == InitSweep /\ [][Next]_vars /\ Fairness

(***************************************************************************)
(* ScrapeAll's log, lines 118-143 and 286-301: the buffered channel logCh, *)
(* the log file, the goroutine that writes what it receives from logCh to  *)
(* the file, and the function log the workers call.  A message is one      *)
(* unit: the channel is the number of messages it holds.                   *)
(***************************************************************************)
\* Lines 119-133: make(chan string, 100) and os.Create; the writer goroutine
\* is started when the file was created.
OpenLog ==
    /\ logOpen' = TRUE
    /\ logCh' = 0
    /\ logFile' \in {"open", "failed"}
    /\ UNCHANGED <<logDropped, logFault>>

\* Mutant: log sends without a default case, as a plain logCh <- msg.
log_Blocking ==
    IF ~logOpen
    THEN /\ logFault' = TRUE
         /\ UNCHANGED <<logFile, logCh, logOpen, logDropped>>
    ELSE /\ logCh < logCapacity
         /\ logCh' = logCh + 1
         /\ UNCHANGED <<logFile, logOpen, logDropped, logFault>>

\* Lines 136-143: the select with a default case.  A send on a closed
\* channel panics, in a select too.
log ==
    IF ~logOpen
    THEN /\ logFault' = TRUE
         /\ UNCHANGED <<logFile, logCh, logOpen, logDropped>>
    ELSE IF logCh < logCapacity
    THEN /\ logCh' = logCh + 1
         /\ UNCHANGED <<logFile, logOpen, logDropped, logFault>>
    ELSE /\ logDropped' = logDropped + 1
         /\ UNCHANGED <<logFile, logCh, logOpen, logFault>>

\* Lines 128-132: the writer goroutine takes one message and writes it; it
\* lives on after ScrapeAll has returned, and the error of a WriteString on
\* the closed file is not looked at.
LogWrite ==
    /\ logFile \in {"open", "closed"}
    /\ logCh > 0
    /\ logCh' = logCh - 1
    /\ UNCHANGED <<logFile, logOpen, logDropped, logFault>>
    /\ UNCHANGED scraper

\* Line 287 and, at the return of line 301, the deferred logFile.Close() of
\* line 125.
CloseLog ==
    /\ logOpen' = FALSE
    /\ logFile' = IF logFile = "open" THEN "closed" ELSE logFile
    /\ UNCHANGED <<logCh, logDropped, logFault>>

\* Lines 281-301 with the log.
WaitAndClose == WaitAndReturn /\ CloseLog

\* Lines 219-233 with the log call of line 223.
FetchAndLog(w) ==
    Fetch(w) /\ IF class'[w] = "failed" THEN log ELSE UNCHANGED logging

\* Lines 236-277 with the log call of line 245, 265 or 275.
MergeAndLog(w) == Merge(w) /\ log

\* Lines 248-250 and 268-270 with their log call, made when
\* saveProfileToJSON returned an error.
SaveAndLog(w) ==
    /\ Save(w)
    /\ \E o \in SaveOutcomes(disk, profile[w]) :
        /\ disk' = o.files
        /\ IF o.ok THEN UNCHANGED logging ELSE log

\* The sweep with its log.
NextLog ==
    \/ Start /\ OpenLog
    \/ LoopCheck /\ UNCHANGED logging
    \/ Dispatch /\ UNCHANGED logging
    \/ WaitAndClose
    \/ \E w \in IDs : FetchAndLog(w)
    \/ \E w \in IDs : Lock(w) /\ UNCHANGED logging
    \/ \E w \in IDs : MergeAndLog(w)
    \/ \E w \in IDs : SaveAndLog(w)
    \/ \E w \in IDs : Exit(w) /\ UNCHANGED logging
    \/ LogWrite

\* One sweep from scratch over a source that does not change.
InitLog ==
    /\ site = SourceOf(<<PageAnnJew, PageAnnPros, PageEmpty>>)
    /\ disk = PriorDisk
    /\ incrementalMode = FALSE
    /\ slots = concurrentRequests
    /\ target = totalProfiles
    /\ Constructed
    /\ NoLog
    /\ NotExtracting

SpecLog == InitLog /\ [][NextLog]_vars

\* Every goroutine that can take a step is scheduled, the writer included;
\* a goroutine waiting for c.mu gets it when it is free again and again.
FairnessLog ==
    /\ WF_vars(\/ Start /\ OpenLog
               \/ (LoopCheck \/ Dispatch) /\ UNCHANGED logging
               \/ WaitAndClose)
    /\ \A w \in IDs :
        /\ WF_vars(\/ FetchAndLog(w)
                   \/ MergeAndLog(w)
                   \/ SaveAndLog(w)
                   \/ Exit(w) /\ UNCHANGED logging)
        /\ SF_vars(Lock(w) /\ UNCHANGED logging)
    /\ WF_vars(LogWrite)

SpecLogFair == InitLog /\ [][NextLog]_vars /\ FairnessLog


(***************************************************************************)
(* Go strings.  A string is the sequence of its runes, each rune a string  *)
(* of one character; a rune outside ASCII is written by its code point.    *)
(* Offsets and lengths are counted in bytes of UTF-8, as Go counts them.   *)
(***************************************************************************)
Runes(s) == [i \in 1..Len(s) |-> SubSeq(s, i, i)]

Bullet == "U+2022"
EAcute == "U+00E9"

\* The bytes a rune takes in UTF-8: three for the bullets outside ASCII,
\* two for U+00E9, one for ASCII.
ByteLen(r) ==
    IF r \in {Bullet, "U+2605", "U+2713", "U+2714", "U+2192", "U+21D2",
              "U+27F9", "U+21FE", "U+27F6"}
    THEN 3
    ELSE IF r = EAcute THEN 2 ELSE 1

\* len(s)
RECURSIVE GoLen(_)
GoLen(s) == IF s = <<>> THEN 0 ELSE ByteLen(Head(s)) + GoLen(Tail(s))

IsSpace(r) == r \in {" ", "\n", "\t", "\r"}

Least(S) == CHOOSE x \in S : \A y \in S : x <= y
Greatest(S) == CHOOSE x \in S : \A y \in S : x >= y

\* strings.TrimSpace
TrimSpace(s) ==
    LET inked == {i \in 1..Len(s) : ~IsSpace(s[i])}
    IN  IF inked = {} THEN <<>> ELSE SubSeq(s, Least(inked), Greatest(inked))

\* sub occurs in s with its first rune at position i.
Occurs(s, sub, i) ==
    /\ i >= 1
    /\ i + Len(sub) - 1 <= Len(s)
    /\ SubSeq(s, i, i + Len(sub) - 1) = sub

Occurrences(s, sub) == {i \in 1..Len(s) + 1 : Occurs(s, sub, i)}

\* strings.Contains
Contains(s, sub) == Occurrences(s, sub) # {}

\* strings.LastIndex: a byte offset, -1 when absent.
LastIndex(s, sub) ==
    IF Contains(s, sub)
    THEN GoLen(SubSeq(s, 1, Greatest(Occurrences(s, sub)) - 1))
    ELSE -1

\* s[:n] for n a byte offset that falls between two runes.
SliceTo(s, n) ==
    SubSeq(s, 1, Greatest({k \in 0..Len(s) : GoLen(SubSeq(s, 1, k)) <= n}))

\* strings.HasPrefix, strings.HasSuffix, strings.TrimPrefix, strings.TrimSuffix
HasPrefix(s, prefix) == Occurs(s, prefix, 1)
HasSuffix(s, suffix) == Occurs(s, suffix, Len(s) - Len(suffix) + 1)
TrimPrefix(s, prefix) ==
    IF HasPrefix(s, prefix) THEN SubSeq(s, Len(prefix) + 1, Len(s)) ELSE s
TrimSuffix(s, suffix) ==
    IF HasSuffix(s, suffix) THEN SubSeq(s, 1, Len(s) - Len(suffix)) ELSE s

\* strings.Split for a separator that is not empty.
RECURSIVE Split(_, _)
Split(s, sep) ==
    IF ~Contains(s, sep)
    THEN <<s>>
    ELSE LET i == Least(Occurrences(s, sep))
         IN  <<SubSeq(s, 1, i - 1)>>
                 \o Split(SubSeq(s, i + Len(sep), Len(s)), sep)

\* strings.SplitN(s, sep, 2)
SplitN2(s, sep) ==
    IF ~Contains(s, sep)
    THEN <<s>>
    ELSE LET i == Least(Occurrences(s, sep))
         IN  <<SubSeq(s, 1, i - 1), SubSeq(s, i + Len(sep), Len(s))>>

\* strings.ReplaceAll for an old that is not empty.
RECURSIVE ReplaceAll(_, _, _)
ReplaceAll(s, old, new) ==
    IF ~Contains(s, old)
    THEN s
    ELSE LET i == Least(Occurrences(s, old))
         IN  SubSeq(s, 1, i - 1) \o new
                 \o ReplaceAll(SubSeq(s, i + Len(old), Len(s)), old, new)

\* strings.Trim(s, ".")
TrimDots(s) ==
    LET kept == {i \in 1..Len(s) : s[i] # "."}
    IN  IF kept = {} THEN <<>> ELSE SubSeq(s, Least(kept), Greatest(kept))

UpperCase == Runes("ABCDEFGHIJKLMNOPQRSTUVWXYZ")
Digits == {"0", "1", "2", "3", "4", "5", "6", "7", "8", "9"}

IsUpper(r) == r \in {UpperCase[k] : k \in 1..Len(UpperCase)}

\* unicode.ToLower of each capital letter.
LowerOf ==
    [r \in {UpperCase[k] : k \in 1..Len(UpperCase)} |->
        Runes("abcdefghijklmnopqrstuvwxyz")[
            CHOOSE k \in 1..Len(UpperCase) : UpperCase[k] = r]]

\* strings.ToLower, on the runes of the model.
ToLower(s) ==
    [i \in 1..Len(s) |-> IF s[i] \in DOMAIN LowerOf THEN LowerOf[s[i]] ELSE s[i]]


(***************************************************************************)
(* splitByBullets, lines 1025-1139.                                        *)
(***************************************************************************)
MaxTextLen == 5

Bullets_HyphenFirst ==
    <<"-", Bullet, "U+2605", "U+2713", "U+2714", "*", "U+2192", "U+21D2",
      "U+27F9", "U+21FE", "U+27F6">>

\* bullets, in the order the loops try them.
Bullets ==
    <<Bullet, "-", "U+2605", "U+2713", "U+2714", "*", "U+2192", "U+21D2",
      "U+27F9", "U+21FE", "U+27F6">>

Trimmed(parts) == [i \in 1..Len(parts) |-> TrimSpace(parts[i])]

\* The bullets text contains, as positions in Bullets.
BulletsIn(t) == {k \in 1..Len(Bullets) : Contains(t, <<Bullets[k]>>)}

hasBullets(t) == BulletsIn(t) # {}

\* Lines 1035-1048: the first bullet of the list that occurs splits the text.
ByBullet(t) ==
    IF hasBullets(t)
    THEN SelectSeq(Trimmed(Split(t, <<Bullets[Least(BulletsIn(t))]>>)),
                   LAMBDA part : part # <<>>)
    ELSE <<>>

\* Lines 1056-1061: a leading bullet is taken off a line.
StripBullet(line) ==
    LET leading == {k \in 1..Len(Bullets) : HasPrefix(line, <<Bullets[k]>>)}
    IN  IF leading = {}
        THEN line
        ELSE TrimSpace(TrimPrefix(line, <<Bullets[Least(leading)]>>))

\* Lines 1052-1068.
ByLines(t) ==
    LET lines == Trimmed(Split(t, <<"\n">>))
    IN  SelectSeq([i \in 1..Len(lines) |-> StripBullet(lines[i])],
                  LAMBDA line : line # <<>> /\ GoLen(line) > 2)

\* numberRegex (\d+\.\s+): the last position of the match that starts at i,
\* 0 when none starts there.
NumberEnd(s, i) ==
    IF i > Len(s) \/ s[i] \notin Digits
    THEN 0
    ELSE LET j == Greatest({k \in i..Len(s) :
                               \A m \in i..k : s[m] \in Digits})
         IN  IF j + 2 <= Len(s) /\ s[j + 1] = "." /\ IsSpace(s[j + 2])
             THEN Greatest({k \in j + 2..Len(s) :
                               \A m \in j + 2..k : IsSpace(s[m])})
             ELSE 0

NumberStarts(s) == {i \in 1..Len(s) : NumberEnd(s, i) # 0}

\* numberRegex.Split(text, -1)
RECURSIVE NumberSplit(_)
NumberSplit(s) ==
    IF NumberStarts(s) = {}
    THEN <<s>>
    ELSE LET i == Least(NumberStarts(s))
         IN  <<SubSeq(s, 1, i - 1)>>
                 \o NumberSplit(SubSeq(s, NumberEnd(s, i) + 1, Len(s)))

\* Lines 1072-1084.
ByNumbers(t) ==
    IF NumberStarts(t) # {}
    THEN SelectSeq(Trimmed(NumberSplit(t)),
                   LAMBDA part : part # <<>> /\ GoLen(part) > 2)
    ELSE <<>>

\* Lines 1094-1098: the period comes back on what looks like a sentence.
AsSentence(part) ==
    IF GoLen(part) > 20 /\ IsUpper(part[1]) THEN part \o <<".">> ELSE part

\* Lines 1087-1110.
BySentences(t) ==
    LET parts == Split(t, Runes(". "))
    IN  IF Len(parts) > 1
        THEN LET kept ==
                     SelectSeq(Trimmed(parts),
                               LAMBDA part : part # <<>> /\ GoLen(part) > 10)
             IN  [i \in 1..Len(kept) |-> AsSentence(kept[i])]
        ELSE SelectSeq(Trimmed(Split(t, Runes("; "))),
                       LAMBDA part : part # <<>> /\ GoLen(part) > 5)

LooksLikeSentences(t) ==
    /\ GoLen(t) > 15
    /\ Contains(t, Runes(". ")) \/ Contains(t, Runes("; "))

\* items as it is when the final cleanup begins (line 1118).
Pieces(text0) ==
    LET t == TrimSpace(text0)
        bulleted == ByBullet(t)
        lined ==
            IF ~hasBullets(t) /\ Contains(t, <<"\n">>)
            THEN bulleted \o ByLines(t)
            ELSE bulleted
        numbered == IF lined = <<>> THEN ByNumbers(t) ELSE lined
        sentences ==
            IF numbered = <<>> /\ LooksLikeSentences(t)
            THEN BySentences(t)
            ELSE numbered
    IN  IF sentences = <<>> THEN <<t>> ELSE sentences

\* Lines 1119-1136, with seen the items appended so far.
RECURSIVE Clean(_, _)
Clean(list, seen) ==
    IF list = <<>>
    THEN <<>>
    ELSE LET item == TrimSpace(Head(list))
         IN  IF item = <<>> \/ GoLen(item) < 3 \/ item \in seen
             THEN Clean(Tail(list), seen)
             ELSE <<item>> \o Clean(Tail(list), seen \cup {item})

FinalPass_KeepsRepeats(list) ==
    SelectSeq(Trimmed(list), LAMBDA item : GoLen(item) >= 3)

FinalPass(list) == Clean(list, {})

\* ScrapeAll has not been called and is not followed.
SweepIdle ==
    /\ site = SourceOf(<<PageEmpty, PageEmpty, PageEmpty>>)
    /\ disk = PriorDisk
    /\ incrementalMode = FALSE
    /\ slots = concurrentRequests
    /\ target = totalProfiles
    /\ Constructed
    /\ NoLog

\* Texts splitByBullets is called with.
WithBullets(a, b, c) ==
    Runes(a) \o <<" ", Bullet, " ">> \o Runes(b) \o <<" ", Bullet, " ">>
        \o Runes(c)

SampleTexts ==
    {WithBullets("A", "B", "C"),
     WithBullets("X", "X", "Y"),
     WithBullets("Xxx", "Xxx", "Yyy"),
     WithBullets("Gave to charity", "Bar mitzvah", "Gave to charity"),
     WithBullets("well-known", "self-made", "well-known"),
     Runes("single sentence without delimiters"),
     Runes("1. First reason 2. Second reason"),
     Runes("He was kind to everyone around. he gave a lot"),
     Runes("kind to all; generous; funny"),
     Runes("Born in Minsk\n- Keeps kosher\n* ok")}

Texts ==
    SampleTexts
        \cup UNION {[1..n -> {"a", " ", "\n", "-", Bullet, EAcute}] :
                       n \in 0..MaxTextLen}

InitSplit ==
    /\ text \in Texts
    /\ items = <<>>
    /\ spc = "split"
    /\ doc = NoDocument
    /\ parsed = NoFields
    /\ ppc = "idle"
    /\ SweepIdle

\* Lines 1027-1116: the text is cut into pieces.
SplitPieces ==
    /\ spc = "split"
    /\ items' = Pieces(text)
    /\ spc' = "cleanup"
    /\ UNCHANGED <<text, doc, parsed, ppc>>
    /\ UNCHANGED <<site, disk, profiles, mu, clock, run, incrementalMode,
                   slots, target, cpc, id, semaphore, wg, pc, counters, locals,
                   ret, history, db>>

\* Lines 1118-1138: the final cleanup, and the return.
FinalCleanup ==
    /\ spc = "cleanup"
    /\ items' = FinalPass(items)
    /\ spc' = "done"
    /\ UNCHANGED <<text, doc, parsed, ppc>>
    /\ UNCHANGED <<site, disk, profiles, mu, clock, run, incrementalMode,
                   slots, target, cpc, id, semaphore, wg, pc, counters, locals,
                   ret, history, db>>

NextSplit == (SplitPieces \/ FinalCleanup) /\ UNCHANGED logging

SpecSplit == InitSplit /\ [][NextSplit]_vars


(***************************************************************************)
(* parseProfile, lines 405-979.  A document is its title, its meta         *)
(* description when it has one, and the elements of its body in document   *)
(* order; an element is a child of body and holds text only, or is a ul    *)
(* holding li children with text only.  The documents of the model have    *)
(* no table and no class attribute, so the selectors of lines 578 and 619  *)
(* select nothing.                                                         *)
(***************************************************************************)
splitByBullets(t) == FinalPass(Pieces(t))

Element(tag, ident, src, txt) ==
    [tag |-> tag, id |-> ident, src |-> Runes(src), text |-> Runes(txt),
     li |-> <<>>]

\* The elements of d that a selector of tags selects, in document order.
Find(d, tags) ==
    SelectSeq(d.elements, LAMBDA e : e.tag \in tags)

RECURSIVE Concat(_)
Concat(list) == IF list = <<>> THEN <<>> ELSE Head(list) \o Concat(Tail(list))

\* A ul element and the texts of its li children; its text is theirs.
List(children) ==
    [tag |-> "ul", id |-> "", src |-> <<>>, text |-> Concat(children),
     li |-> children]

\* Selection.Text() of body, the parent of every element.
BodyText(d) == Concat([i \in 1..Len(d.elements) |-> d.elements[i].text])

\* strings.Replace(s, old, "", 1)
RemoveFirst(s, old) ==
    IF old = <<>> \/ ~Contains(s, old)
    THEN s
    ELSE LET i == Least(Occurrences(s, old))
         IN  SubSeq(s, 1, i - 1) \o SubSeq(s, i + Len(old), Len(s))

\* doc.Html()
ElementHtml(e) ==
    IF e.tag = "img"
    THEN Runes("<img src=\"") \o e.src \o Runes("\"/>")
    ELSE IF e.tag = "ul"
    THEN Runes("<ul>")
             \o Concat([i \in 1..Len(e.li) |->
                            Runes("<li>") \o e.li[i] \o Runes("</li>")])
             \o Runes("</ul>")
    ELSE Runes("<") \o Runes(e.tag)
             \o (IF e.id = "" THEN <<>>
                 ELSE Runes(" id=\"") \o Runes(e.id) \o Runes("\""))
             \o Runes(">") \o e.text \o Runes("</") \o Runes(e.tag)
             \o Runes(">")

Html(d) ==
    Runes("<html><head><title>") \o d.title \o Runes("</title>")
        \o (IF d.hasMeta
            THEN Runes("<meta name=\"description\" content=\"") \o d.meta
                     \o Runes("\"/>")
            ELSE <<>>)
        \o Runes("</head><body>")
        \o Concat([i \in 1..Len(d.elements) |-> ElementHtml(d.elements[i])])
        \o Runes("</body></html>")

\* Lines 411-423: the name from the title.
NameFromTitle(d) ==
    IF d.title # <<>>
    THEN TrimPrefix(TrimSpace(Split(d.title, Runes(" - "))[1]),
                    Runes("Jew or Not Jew: "))
    ELSE <<>>

\* Lines 426-436: the last h1 with text, when the title gave no name.
RECURSIVE LastNonBlank(_, _)
LastNonBlank(list, found) ==
    IF list = <<>>
    THEN found
    ELSE LastNonBlank(Tail(list),
                      IF TrimSpace(Head(list).text) # <<>>
                      THEN TrimSpace(Head(list).text)
                      ELSE found)

NameOf(d) ==
    IF NameFromTitle(d) = <<>>
    THEN LastNonBlank(Find(d, {"h1"}), <<>>)
    ELSE NameFromTitle(d)

\* Lines 441-466: the verdict from the meta description.
MetaVerdict(d) ==
    LET metaDesc == TrimSpace(d.meta)
        words == Split(metaDesc, Runes(" "))
        lastWord == TrimSuffix(words[Len(words)], Runes("."))
    IN  IF d.hasMeta /\ d.meta # <<>> /\ Contains(metaDesc, Runes("is "))
              /\ HasSuffix(metaDesc, Runes(".")) /\ Len(words) > 2
        THEN IF lastWord = Runes("Jew") \/ lastWord = Runes("Jewish")
             THEN Runes("Jew")
             ELSE IF Contains(lastWord, Runes("Not"))
                  THEN Runes("Not a Jew")
                  ELSE <<>>
        ELSE <<>>

\* Lines 472-508: what one selected element makes of verdictText.
PageVerdictStep(d, e, verdictText) ==
    LET txt == TrimSpace(e.text)
        lcText == ToLower(txt)
        parts == SplitN2(txt, Runes(":"))
        siblingText == TrimSpace(RemoveFirst(TrimSpace(BodyText(d)), txt))
    IN  IF Contains(lcText, Runes("verdict:"))
        THEN IF Len(parts) > 1 /\ TrimSpace(parts[2]) # <<>>
             THEN TrimSpace(parts[2])
             ELSE verdictText
        ELSE IF Contains(lcText, Runes("verdict")) /\ GoLen(txt) < 30
             THEN IF siblingText # <<>> /\ GoLen(siblingText) < 30
                  THEN siblingText
                  ELSE verdictText
             ELSE IF lcText \in {Runes("jew"), Runes("not a jew"),
                                 Runes("barely a jew")}
                       /\ GoLen(txt) < 30
                  THEN txt
                  ELSE verdictText

RECURSIVE PageVerdict(_, _, _)
PageVerdict(d, selection, verdictText) ==
    IF selection = <<>>
    THEN verdictText
    ELSE PageVerdict(d, Tail(selection),
                     PageVerdictStep(d, Head(selection), verdictText))

\* Lines 512-527: the verdict from the first image under img/.
ImageVerdict(d) ==
    LET images ==
            SelectSeq(Find(d, {"img"}),
                      LAMBDA e : Contains(e.src, Runes("img/")))
    IN  IF images = <<>>
        THEN <<>>
        ELSE IF Contains(images[1].src, Runes("verified_jew"))
             THEN Runes("Jew")
             ELSE IF Contains(images[1].src, Runes("not_a_jew"))
                  THEN Runes("Not a Jew")
                  ELSE <<>>

\* Lines 438-531: verdictText when profile.Verdict is set from it.
VerdictOf(d) ==
    LET fromPage == PageVerdict(d, Find(d, {"font", "div", "b", "p"}), <<>>)
    IN  IF MetaVerdict(d) # <<>>
        THEN MetaVerdict(d)
        ELSE IF fromPage # <<>> THEN fromPage ELSE ImageVerdict(d)

\* strings.ReplaceAll(s, "\r\n", "\n") and then strings.ReplaceAll(s, "\r", "\n")
NormalizeBreaks(s) ==
    LET kept == {i \in 1..Len(s) :
                    ~(s[i] = "\r" /\ i < Len(s) /\ s[i + 1] = "\n")}
        nth(k) == CHOOSE i \in kept : Cardinality({j \in kept : j < i}) = k - 1
    IN  [k \in 1..Cardinality(kept) |->
            IF s[nth(k)] = "\r" THEN "\n" ELSE s[nth(k)]]

\* Mutant: the labels are located with strings.Index.
CutSections_FirstIndex(fullText) ==
    LET lower == ToLower(fullText)
        found ==
            UNION {Occurrences(lower, Runes(l)) \ {1} :
                       l \in {"verdict:", "pros:", "cons:"}}
    IN  IF found = {} THEN fullText ELSE SubSeq(fullText, 1, Least(found) - 1)

\* Lines 546-567: the text before the last "verdict:", "pros:" or "cons:".
CutSections(fullText) ==
    LET lower == ToLower(fullText)
        verdictIndex == LastIndex(lower, Runes("verdict:"))
        prosIndex == LastIndex(lower, Runes("pros:"))
        consIndex == LastIndex(lower, Runes("cons:"))
        cut1 ==
            IF verdictIndex > 0 /\ verdictIndex < GoLen(fullText)
            THEN verdictIndex
            ELSE GoLen(fullText)
        cut2 == IF prosIndex > 0 /\ prosIndex < cut1 THEN prosIndex ELSE cut1
        cutIndex ==
            IF consIndex > 0 /\ consIndex < cut2 THEN consIndex ELSE cut2
    IN  IF cutIndex < GoLen(fullText)
        THEN SliceTo(fullText, cutIndex)
        ELSE fullText

\* Lines 535-573: the description from the first element named profileBody.
BodyDescription(d) ==
    LET profileBody ==
            SelectSeq(d.elements, LAMBDA e : e.id = "profileBody")
    IN  IF profileBody # <<>> /\ GoLen(TrimSpace(profileBody[1].text)) > 50
        THEN TrimSpace(CutSections(
                 NormalizeBreaks(TrimSpace(profileBody[1].text))))
        ELSE <<>>

\* Lines 600-613: the meta description as the last resort.
MetaFallback(d, description) ==
    IF (description = <<>> \/ GoLen(description) < 30)
           /\ d.hasMeta /\ d.meta # <<>> /\ GoLen(d.meta) > 10
    THEN IF HasPrefix(d.meta, Runes("JewOrNotJew.com:"))
         THEN TrimSpace(TrimPrefix(d.meta, Runes("JewOrNotJew.com:")))
         ELSE d.meta
    ELSE description

\* Lines 533-640.
DescriptionOf(d) == MetaFallback(d, BodyDescription(d))

\* The first position from p on that holds no white space.
SkipSpace(s, p) ==
    Least({q \in p..Len(s) + 1 : q = Len(s) + 1 \/ ~IsSpace(s[q])})

\* The first position from p on where word begins in lower, the text in
\* lower case; past its end when there is none.
NextWord(lower, word, p) ==
    Least({q \in p..Len(lower) + 1 :
              q = Len(lower) + 1 \/ Occurs(lower, word, q)})

\* prosRegex with the keyword alternative ending just before position a:
\* the capture, as a sequence of at most one.
ProsCapture(s, lower, a) ==
    LET p == SkipSpace(s, a)
        q == NextWord(lower, <<"c", "o", "n", "s">>, p)
    IN  IF \A k \in p..q - 1 : s[k] # "\n"
        THEN <<SubSeq(s, p, q - 1)>>
        ELSE <<>>

\* prosRegex matched from position i: Pros first, then Pros: .
ProsMatchAt(s, lower, i) ==
    IF ~Occurs(lower, <<"p", "r", "o", "s">>, i)
    THEN <<>>
    ELSE IF ProsCapture(s, lower, i + 4) # <<>>
         THEN ProsCapture(s, lower, i + 4)
         ELSE IF i + 4 <= Len(s) /\ s[i + 4] = ":"
              THEN ProsCapture(s, lower, i + 5)
              ELSE <<>>

\* prosRegex.FindStringSubmatch: the capture of the leftmost match.
ProsMatches(s) ==
    LET lower == ToLower(s)
        starts == {i \in 1..Len(s) : ProsMatchAt(s, lower, i) # <<>>}
    IN  IF starts = {} THEN <<>> ELSE ProsMatchAt(s, lower, Least(starts))

\* consRegex with the keyword alternative ending just before position a.
ConsCapture(s, lower, a) ==
    LET p == SkipSpace(s, a)
        r == Least({q \in p..Len(s) + 1 : q = Len(s) + 1 \/ s[q] = ":"})
    IN  IF r = Len(s) + 1
        THEN <<SubSeq(s, p, Len(s))>>
        ELSE IF r - 7 >= p
                  /\ Occurs(lower, <<"v", "e", "r", "d", "i", "c", "t">>,
                            r - 7)
             THEN <<SubSeq(s, p, r - 8)>>
             ELSE <<>>

\* consRegex matched from position i: Cons first, then Cons: .
ConsMatchAt(s, lower, i) ==
    IF ~Occurs(lower, <<"c", "o", "n", "s">>, i)
    THEN <<>>
    ELSE IF ConsCapture(s, lower, i + 4) # <<>>
         THEN ConsCapture(s, lower, i + 4)
         ELSE IF i + 4 <= Len(s) /\ s[i + 4] = ":"
              THEN ConsCapture(s, lower, i + 5)
              ELSE <<>>

\* consRegex.FindStringSubmatch: the capture of the leftmost match.
ConsMatches(s) ==
    LET lower == ToLower(s)
        starts == {i \in 1..Len(s) : ConsMatchAt(s, lower, i) # <<>>}
    IN  IF starts = {} THEN <<>> ELSE ConsMatchAt(s, lower, Least(starts))

HasEntities(con) ==
    \/ Contains(con, Runes("&#"))
    \/ Contains(con, Runes("&lt;"))
    \/ Contains(con, Runes("&gt;"))
    \/ Contains(con, Runes("<span"))

\* Lines 652-663: the pros kept from the capture of prosRegex.
RegexPros(d) ==
    LET prosMatches == ProsMatches(Html(d))
    IN  IF prosMatches = <<>>
        THEN <<>>
        ELSE SelectSeq(splitByBullets(prosMatches[1]),
                       LAMBDA pro :
                           /\ GoLen(pro) > 3
                           /\ ~Contains(ToLower(pro), Runes("cons:")))

\* Lines 672-691: the cons kept from the capture of consRegex.
RegexCons(d) ==
    LET consMatches == ConsMatches(Html(d))
    IN  IF consMatches = <<>>
        THEN <<>>
        ELSE IF GoLen(consMatches[1]) > 10 /\ GoLen(consMatches[1]) < 1000
             THEN SelectSeq(splitByBullets(consMatches[1]),
                            LAMBDA con :
                                /\ GoLen(con) > 10
                                /\ ~Contains(con, Runes("idered"))
                                /\ ~HasEntities(con))
             ELSE <<>>

\* Lines 699-754: what one selected element adds when the expressions
\* left pros or cons unfound.
DomStep(e, st) ==
    LET txt == TrimSpace(e.text)
        lowerText == ToLower(txt)
        parts == SplitN2(txt, Runes(":"))
        prosList ==
            IF Len(parts) > 1 THEN parts[2] ELSE TrimPrefix(txt, Runes("Pros"))
        consList ==
            IF Len(parts) > 1 THEN parts[2] ELSE TrimPrefix(txt, Runes("Cons"))
        newPros ==
            IF ~st.prosFound
                   /\ (Contains(lowerText, Runes("pros:"))
                         \/ HasPrefix(lowerText, Runes("pros")))
            THEN SelectSeq(splitByBullets(prosList),
                           LAMBDA pro :
                               /\ GoLen(pro) > 3
                               /\ ~Contains(ToLower(pro), Runes("cons")))
            ELSE <<>>
        newCons ==
            IF ~st.consFound
                   /\ (Contains(lowerText, Runes("cons:"))
                         \/ HasPrefix(lowerText, Runes("cons")))
            THEN SelectSeq(splitByBullets(consList),
                           LAMBDA con : GoLen(con) > 3 /\ ~HasEntities(con))
            ELSE <<>>
    IN  [pros |-> st.pros \o newPros,
         cons |-> st.cons \o newCons,
         prosFound |-> st.prosFound \/ newPros # <<>>,
         consFound |-> st.consFound \/ newCons # <<>>]

RECURSIVE DomFold(_, _)
DomFold(selection, st) ==
    IF selection = <<>>
    THEN st
    ELSE DomFold(Tail(selection), DomStep(Head(selection), st))

\* Lines 694-756: the DOM is tried when the expressions left either unfound.
FromDom(selection, st) ==
    IF ~st.prosFound \/ ~st.consFound THEN DomFold(selection, st) ELSE st

\* Lines 1015-1023.
contains(slice, str) == \E i \in 1..Len(slice) : slice[i] = str

\* Mutant: a list item is appended whether or not the list holds it.
ListStep_NoDedupe(parentText, item, st) ==
    IF item = <<>> \/ GoLen(item) <= 3
    THEN st
    ELSE IF Contains(parentText, Runes("pros"))
              /\ ~Contains(ToLower(item), Runes("cons:"))
         THEN [st EXCEPT !.pros = Append(st.pros, item)]
         ELSE IF Contains(parentText, Runes("cons")) /\ ~HasEntities(item)
              THEN [st EXCEPT !.cons = Append(st.cons, item)]
              ELSE st

\* Lines 760-790: what one li, its text trimmed, adds; parentText is the
\* text of its nearest div, td or ul in lower case.
ListStep(parentText, item, st) ==
    IF item = <<>> \/ GoLen(item) <= 3
    THEN st
    ELSE IF Contains(parentText, Runes("pros"))
              /\ ~Contains(ToLower(item), Runes("cons:"))
         THEN IF contains(st.pros, item)
              THEN st
              ELSE [st EXCEPT !.pros = Append(st.pros, item)]
         ELSE IF Contains(parentText, Runes("cons"))
                   /\ ~contains(st.cons, item) /\ ~HasEntities(item)
              THEN [st EXCEPT !.cons = Append(st.cons, item)]
              ELSE st

RECURSIVE ListFold(_, _, _)
ListFold(parentText, children, st) ==
    IF children = <<>>
    THEN st
    ELSE ListFold(parentText, Tail(children),
                  ListStep(parentText, TrimSpace(Head(children)), st))

\* Lines 759-791: every li of the document, in document order.
RECURSIVE FromLists(_, _)
FromLists(lists, st) ==
    IF lists = <<>>
    THEN st
    ELSE FromLists(Tail(lists),
                   ListFold(ToLower(Head(lists).text), Head(lists).li, st))

\* Lines 642-791: profile.Pros and profile.Cons.
ProsConsOf(d) ==
    FromLists(Find(d, {"ul"}),
              FromDom(Find(d, {"div", "td", "span", "p", "font"}),
                      [pros |-> RegexPros(d),
                       cons |-> RegexCons(d),
                       prosFound |-> RegexPros(d) # <<>>,
                       consFound |-> RegexCons(d) # <<>>]))

\* Line 983: every <...> removed, the leftmost first.
RECURSIVE RemoveTags(_)
RemoveTags(s) ==
    LET opens == {i \in 1..Len(s) :
                     s[i] = "<" /\ \E j \in i + 1..Len(s) : s[j] = ">"}
    IN  IF opens = {}
        THEN s
        ELSE SubSeq(s, 1, Least(opens) - 1)
                 \o RemoveTags(SubSeq(s,
                        Least({j \in Least(opens) + 1..Len(s) : s[j] = ">"})
                            + 1,
                        Len(s)))

\* Lines 999-1000: each run of white space becomes one space.
CollapseSpace(s) ==
    LET firsts ==
            SelectSeq([i \in 1..Len(s) |-> i],
                      LAMBDA i : ~IsSpace(s[i]) \/ i = 1 \/ ~IsSpace(s[i - 1]))
    IN  [k \in 1..Len(firsts) |->
            IF IsSpace(s[firsts[k]]) THEN " " ELSE s[firsts[k]]]

\* Lines 987-997: the replacements, in the order of the code.
Unescape(s, pairs) ==
    IF pairs = <<>>
    THEN s
    ELSE ReplaceAll(s, Runes(pairs[1][1]), Runes(pairs[1][2]))

RECURSIVE UnescapeAll(_, _)
UnescapeAll(s, pairs) ==
    IF pairs = <<>>
    THEN s
    ELSE UnescapeAll(Unescape(s, pairs), Tail(pairs))

\* Lines 981-1004.
cleanHTML(input) ==
    TrimSpace(CollapseSpace(
        UnescapeAll(RemoveTags(input),
                    <<<<"&nbsp;", " ">>, <<"\r\n", " ">>, <<"\n", " ">>,
                      <<"&amp;", "&">>, <<"&lt;", "<">>, <<"&gt;", ">">>,
                      <<"&quot;", "\"">>, <<"&#39;", "'">>,
                      <<"&#34;", "\"">>>>)))

\* Lines 797-807 and 813-823: the category kept from what follows the label.
CleanCategory(raw, category) ==
    IF TrimDots(cleanHTML(TrimSpace(raw))) # <<>>
    THEN TrimDots(cleanHTML(TrimSpace(raw)))
    ELSE category

\* Lines 792-825: what one selected element makes of profile.Category.
CategoryStep(e, category) ==
    IF Contains(TrimSpace(e.text), Runes("Category:"))
    THEN CleanCategory(SplitN2(TrimSpace(e.text), Runes("Category:"))[2],
                       category)
    ELSE IF HasPrefix(TrimSpace(e.text), Runes("Category"))
              /\ Len(SplitN2(TrimSpace(e.text), Runes(" "))) > 1
         THEN CleanCategory(SplitN2(TrimSpace(e.text), Runes(" "))[2],
                            category)
         ELSE category

RECURSIVE ExplicitCategory(_, _)
ExplicitCategory(selection, category) ==
    IF selection = <<>>
    THEN category
    ELSE ExplicitCategory(Tail(selection),
                          CategoryStep(Head(selection), category))

\* Line 836: the categories a keyword is compared with, in their order.
Categories ==
    <<"Actor", "Actress", "Entertainment", "Politics", "Sports", "Music",
      "Science", "Business", "Religion", "History", "Art", "Literature",
      "Media", "Academia", "Military", "Fashion", "Technology", "Comedy",
      "Royalty", "Film", "Television">>

\* Lines 836-845: the first category one keyword contains.
KeywordMatch(keyword) ==
    LET hits == {k \in 1..Len(Categories) :
                    Contains(keyword, ToLower(Runes(Categories[k])))}
    IN  IF hits = {} THEN <<>> ELSE Runes(Categories[Least(hits)])

\* Lines 832-850: the category of the first keyword that has one.
RECURSIVE KeywordCategory(_)
KeywordCategory(keywordsList) ==
    IF keywordsList = <<>>
    THEN <<>>
    ELSE IF KeywordMatch(ToLower(TrimSpace(Head(keywordsList)))) # <<>>
         THEN KeywordMatch(ToLower(TrimSpace(Head(keywordsList))))
         ELSE KeywordCategory(Tail(keywordsList))

\* Lines 857-895: the map categoryClues, its entries in the order written.
categoryClues ==
    <<<<"actor", "Entertainment">>, <<"actress", "Entertainment">>,
      <<"movie", "Entertainment">>, <<"film", "Entertainment">>,
      <<"directed", "Entertainment">>, <<"singer", "Music">>,
      <<"musician", "Music">>, <<"album", "Music">>, <<"song", "Music">>,
      <<"band", "Music">>, <<"political", "Politics">>,
      <<"politician", "Politics">>, <<"president", "Politics">>,
      <<"senator", "Politics">>, <<"parliament", "Politics">>,
      <<"scientist", "Science">>, <<"researcher", "Science">>,
      <<"professor", "Academia">>, <<"author", "Literature">>,
      <<"writer", "Literature">>, <<"book", "Literature">>,
      <<"athlete", "Sports">>, <<"player", "Sports">>,
      <<"baseball", "Sports">>, <<"football", "Sports">>,
      <<"basketball", "Sports">>, <<"soccer", "Sports">>,
      <<"tennis", "Sports">>, <<"religious", "Religion">>,
      <<"rabbi", "Religion">>, <<"priest", "Religion">>,
      <<"businessman", "Business">>, <<"entrepreneur", "Business">>,
      <<"company", "Business">>, <<"CEO", "Business">>,
      <<"comedian", "Comedy">>, <<"comedy", "Comedy">>>>

\* The entries of categoryClues whose clue lowerDesc contains.
Clues(lowerDesc) ==
    {k \in 1..Len(categoryClues) :
        Contains(lowerDesc, Runes(categoryClues[k][1]))}

\* Lines 898-906: range over the map visits its entries in an order that
\* differs from run to run, and the loop breaks at the first clue found.
ClueCategories(lowerDesc) ==
    IF Clues(lowerDesc) = {}
    THEN {<<>>}
    ELSE {Runes(categoryClues[k][2]) : k \in Clues(lowerDesc)}

\* Lines 792-906: what profile.Category can be set to.
CategoryOf(d, explicit, description) ==
    IF explicit # <<>>
    THEN {explicit}
    ELSE IF d.keywords # <<>>
              /\ KeywordCategory(Split(d.keywords, Runes(","))) # <<>>
         THEN {KeywordCategory(Split(d.keywords, Runes(",")))}
         ELSE IF description = <<>>
              THEN {<<>>}
              ELSE ClueCategories(ToLower(description))

\* The documents parseProfile is called with.
ScenarioTitle == Runes("Jew or Not Jew: Test Person - Site")

ScenarioText ==
    Runes("Test Person was notable. Pros: Did good things ")
        \o Runes("Cons: Did bad things Verdict: Jew")

\* A text over 50 bytes in which the label "Pros:" occurs twice.
RepeatedLabelText ==
    Runes("Ann ran Pros: Ltd. for ten years and wrote a bit. ")
        \o Runes("Pros: kind Cons: loud")

Heads ==
    [title : {ScenarioTitle, Runes("Jane Doe"), <<>>},
     hasMeta : {TRUE},
     meta : {Runes("John Doe is a Jew."),
             Runes("Jane Doe is Not a Jew."),
             Runes("John Doe is Jewish."),
             Runes("This is Not."),
             Runes("JewOrNotJew.com: Jane Doe, singer")}]
        \cup [title : {ScenarioTitle, Runes("Jane Doe"), <<>>},
              hasMeta : {FALSE},
              meta : {<<>>}]

Bodies ==
    {<<>>,
     <<[tag |-> "div", id |-> "profileBody", src |-> <<>>,
        text |-> ScenarioText, li |-> <<>>]>>,
     <<Element("h1", "", "", "Test Person"),
       Element("b", "", "", "Not a Jew")>>,
     <<Element("p", "", "", "Verdict"),
       Element("b", "", "", "Barely a Jew")>>,
     <<Element("div", "profileBody", "", "Test Person was notable."),
       Element("p", "", "", "Pros: Did good things"),
       Element("p", "", "", "Cons: Did bad things"),
       Element("b", "", "", "Verdict: Jew")>>,
     <<Element("img", "", "img/verified_jew.gif", "")>>,
     <<Element("p", "", "", "Verdict: Jew"),
       Element("b", "", "", "Not a Jew")>>,
     <<Element("h1", "", "", "First Name"),
       Element("h1", "", "", "Second Name")>>,
     <<[tag |-> "div", id |-> "profileBody", src |-> <<>>,
        text |-> RepeatedLabelText, li |-> <<>>]>>,
     <<Element("div", "profileBody", "",
               "Pros: none that we know of, yet Ann was a player of note.")>>,
     <<[tag |-> "div", id |-> "profileBody", src |-> <<>>,
        text |-> [i \in 1..26 |-> EAcute], li |-> <<>>]>>,
     <<List(<<Runes("Pros of Ann"), Runes("kind"), Runes("kind"),
              <<EAcute, EAcute>>, Runes("ab")>>)>>,
     <<Element("p", "", "", "Pros: kind man\n"),
       List(<<Runes("kind man"), Runes("the pros x\n")>>)>>,
     <<List(<<Runes("cons of Ann"), Runes("loud"), Runes("loud")>>)>>}

\* Documents for the category: a description that holds two clues, with
\* and without keywords, and an explicit category in both formats.
CategoryDocuments ==
    {[title |-> Runes("Ann Lee"), hasMeta |-> TRUE,
      meta |-> Runes("JewOrNotJew.com: Ann Lee, singer and actor"),
      keywords |-> k, elements |-> b] :
        k \in {<<>>, Runes("Ann Lee, jewish people"),
               Runes("Ann Lee, pop music, film")},
        b \in {<<>>,
               <<Element("b", "", "", "Category: Film &amp; <i>TV</i>.")>>,
               <<Element("p", "", "", "Category Sports")>>}}

Documents ==
    {[title |-> h.title, hasMeta |-> h.hasMeta, meta |-> h.meta,
      keywords |-> <<>>, elements |-> b] : h \in Heads, b \in Bodies}
        \cup CategoryDocuments

InitParse ==
    /\ doc \in Documents
    /\ parsed = NoFields
    /\ ppc = "name"
    /\ text = <<>>
    /\ items = <<>>
    /\ spc = "idle"
    /\ SweepIdle

\* Lines 410-436.
ParseName ==
    /\ ppc = "name"
    /\ parsed' = [parsed EXCEPT !.Name = NameOf(doc)]
    /\ ppc' = "verdict"
    /\ UNCHANGED <<text, items, spc, doc>>
    /\ UNCHANGED <<site, disk, profiles, mu, clock, run, incrementalMode,
                   slots, target, cpc, id, semaphore, wg, pc, counters, locals,
                   ret, history, db>>

\* Lines 438-531.
ParseVerdict ==
    /\ ppc = "verdict"
    /\ parsed' = [parsed EXCEPT !.Verdict = VerdictOf(doc)]
    /\ ppc' = "description"
    /\ UNCHANGED <<text, items, spc, doc>>
    /\ UNCHANGED <<site, disk, profiles, mu, clock, run, incrementalMode,
                   slots, target, cpc, id, semaphore, wg, pc, counters, locals,
                   ret, history, db>>

\* Lines 533-640.
ParseDescription ==
    /\ ppc = "description"
    /\ parsed' = [parsed EXCEPT !.Description = DescriptionOf(doc)]
    /\ ppc' = "proscons"
    /\ UNCHANGED <<text, items, spc, doc>>
    /\ UNCHANGED <<site, disk, profiles, mu, clock, run, incrementalMode,
                   slots, target, cpc, id, semaphore, wg, pc, counters, locals,
                   ret, history, db>>

\* Lines 642-791.
ParseProsCons ==
    /\ ppc = "proscons"
    /\ parsed' = [parsed EXCEPT !.Pros = ProsConsOf(doc).pros,
                                !.Cons = ProsConsOf(doc).cons]
    /\ ppc' = "category"
    /\ UNCHANGED <<text, items, spc, doc>>
    /\ UNCHANGED <<site, disk, profiles, mu, clock, run, incrementalMode,
                   slots, target, cpc, id, semaphore, wg, pc, counters, locals,
                   ret, history, db>>

\* Lines 792-906.
ParseCategory ==
    /\ ppc = "category"
    /\ \E category \in
            CategoryOf(doc,
                       ExplicitCategory(
                           Find(doc, {"span", "div", "p", "strong", "b",
                                      "h3"}),
                           <<>>),
                       parsed.Description) :
            parsed' = [parsed EXCEPT !.Category = category]
    /\ ppc' = "image"
    /\ UNCHANGED <<text, items, spc, doc>>
    /\ UNCHANGED <<site, disk, profiles, mu, clock, run, incrementalMode,
                   slots, target, cpc, id, semaphore, wg, pc, counters, locals,
                   ret, history, db>>

\* Lines 908-979: the image, which writes none of the fields above, and the
\* return.
ParseRest ==
    /\ ppc = "image"
    /\ ppc' = "done"
    /\ UNCHANGED <<text, items, spc, doc, parsed>>
    /\ UNCHANGED <<site, disk, profiles, mu, clock, run, incrementalMode,
                   slots, target, cpc, id, semaphore, wg, pc, counters, locals,
                   ret, history, db>>

NextParse ==
    \/ ParseName /\ UNCHANGED logging
    \/ ParseVerdict /\ UNCHANGED logging
    \/ ParseDescription /\ UNCHANGED logging
    \/ ParseProsCons /\ UNCHANGED logging
    \/ ParseCategory /\ UNCHANGED logging
    \/ ParseRest /\ UNCHANGED logging

SpecParse == InitParse /\ [][NextParse]_vars


(***************************************************************************)
(* Properties.                                                             *)
(***************************************************************************)
\* The worker of w leaves the merge step.
MergeStep(w) == pc[w] = "merge" /\ pc'[w] # "merge"

\* Any of verdict, description, number of pros, number of cons differs.
AnyFieldDiffers(a, b) ==
    \/ a.Verdict # b.Verdict
    \/ a.Description # b.Description
    \/ Len(a.Pros) # Len(b.Pros)
    \/ Len(a.Cons) # Len(b.Cons)

\* a and b agree on every field but the two time stamps.
SameContent(a, b) ==
    [a EXCEPT !.CreatedAt = 0, !.UpdatedAt = 0]
        = [b EXCEPT !.CreatedAt = 0, !.UpdatedAt = 0]

OthersKept(k) ==
    \A j \in DOMAIN profiles \ {k} :
        Has(profiles', j) /\ profiles'[j] = profiles[j]

\* C1: every ok result is classified against c.profiles as it stands when
\* it is merged: identity absent -> inserted and counted new; present and
\* any of verdict, description, number of pros, number of cons differs ->
\* replaced and counted updated; otherwise counted unchanged.
C1_MergeClassification ==
    [][\A w \in IDs : MergeStep(w) =>
        LET p == profile[w]
            k == p.Name
        IN  /\ k \notin {"", PlaceholderName(w)}
            /\ OthersKept(k)
            /\ IF ~Has(profiles, k)
               THEN /\ class'[w] = "new"
                    /\ DOMAIN profiles' = DOMAIN profiles \cup {k}
                    /\ profiles'[k] = p
                    /\ newCounter' = newCounter + 1
                    /\ UNCHANGED <<updatedCounter, skippedCounter>>
               ELSE IF AnyFieldDiffers(profiles[k], p)
               THEN /\ class'[w] = "updated"
                    /\ DOMAIN profiles' = DOMAIN profiles
                    /\ SameContent(profiles'[k], p)
                    /\ updatedCounter' = updatedCounter + 1
                    /\ UNCHANGED <<newCounter, skippedCounter>>
               ELSE /\ class'[w] = "unchanged"
                    /\ skippedCounter' = skippedCounter + 1
                    /\ UNCHANGED <<newCounter, updatedCounter>>]_vars

\* A run in which one result was counted updated and another unchanged.
C1_Witness == updatedCounter = 1 /\ skippedCounter = 1

\* C2: once an identity has a record in c.profiles (inserted, or loaded from
\* disk), the createdAt of its stored record never changes for the rest of
\* the run; an update stores the time of the update as updatedAt.
C2_CreatedAtImmutable ==
    [][/\ \A k \in DOMAIN profiles :
            /\ Has(profiles', k)
            /\ profiles'[k].CreatedAt = profiles[k].CreatedAt
       /\ \A w \in IDs :
            MergeStep(w) /\ class'[w] = "updated" =>
                profiles'[profile[w].Name].UpdatedAt = clock']_vars

\* An update has replaced a record and carried its older createdAt forward.
C2_Witness ==
    \E w \in IDs :
        /\ class[w] = "updated"
        /\ Has(profiles, profile[w].Name)
        /\ profiles[profile[w].Name] = profile[w]
        /\ profile[w].CreatedAt < profile[w].UpdatedAt
        /\ profile[w].Score # 1

\* C3: a result classified unchanged mutates nothing (c.profiles is exactly
\* what it was) and no persistence write is issued for it; writes are issued
\* only for results classified new or updated.
C3_UnchangedNoMutation ==
    [][/\ \A w \in IDs :
            MergeStep(w) /\ class'[w] = "unchanged" =>
                /\ profiles' = profiles
                /\ disk' = disk
                /\ pc'[w] = "exit"
       /\ \A w \in IDs :
            pc[w] = "save" => class[w] \in {"new", "updated"}
       /\ disk' # disk =>
            \E w \in IDs :
                /\ pc[w] = "save"
                /\ class[w] \in {"new", "updated"}
                /\ pc'[w] = "exit"]_vars

\* A result was classified unchanged while the stored record of its
\* identity is another record than the one scraped.
C3_Witness ==
    \E w \in IDs :
        /\ class[w] = "unchanged"
        /\ pc[w] = "exit"
        /\ Has(profiles, profile[w].Name)
        /\ profiles[profile[w].Name].Pros # profile[w].Pros


\* The workers whose result was merged.
Merged(w) == class[w] \in {"new", "updated", "unchanged"}

\* The pages of the source that yield one identity agree on the fields the
\* merge compares.
SourceAgrees ==
    \A i, j \in IDs :
        site[i].Name = site[j].Name => ~AnyFieldDiffers(site[i], site[j])

\* Every string of the source is valid UTF-8.
SourceValidUTF8 == \A i \in IDs : site[i].Description # RawDescription

C5_CreatedBeforeUpdated ==
    /\ \A k \in DOMAIN profiles :
        profiles[k].CreatedAt <= profiles[k].UpdatedAt
    /\ \A w \in IDs :
        pc[w] = "save" => profile[w].CreatedAt <= profile[w].UpdatedAt
    /\ \A f \in DOMAIN disk :
        disk[f] # TruncatedFile => disk[f].created_at <= disk[f].updated_at

\* A worker that fetched earlier than the worker whose record is stored
\* is in the merge step and about to update that record.
C5_Witness ==
    \E w \in IDs :
        /\ pc[w] = "merge"
        /\ existingProfile[w] # NilProfile
        /\ AnyFieldDiffers(existingProfile[w], profile[w])
        /\ profile[w].UpdatedAt < existingProfile[w].CreatedAt

\* C6: no two records of c.profiles share an identity, every merged
\* identity has its record, and identities are compared exactly.
C6_IdentityUnique ==
    /\ \A j, k \in DOMAIN profiles :
        profiles[j].Name = profiles[k].Name => j = k
    /\ \A w \in IDs :
        Merged(w) =>
            /\ Has(profiles, profile[w].Name)
            /\ profiles[profile[w].Name].Name = profile[w].Name

\* Two identities that differ only in case are both held.
C6_Witness ==
    /\ Has(profiles, "Ann")
    /\ Has(profiles, "ann")
    /\ profiles["Ann"].Name = "Ann"
    /\ profiles["ann"].Name = "ann"
    /\ cpc = "done"

\* C7: no per-record failure aborts the run: ScrapeAll returns nil, and it
\* stops dispatching only at the end of the range or at the target.
C7_NoAbort ==
    /\ ret \in {"none", "nil"}
    /\ (cpc = "done") = (ret = "nil")
    /\ cpc \in {"wait", "done"} =>
        id > maxID \/ successCounter >= totalProfiles
    /\ cpc = "done" => \A w \in IDs : pc[w] \in {"idle", "done"}

\* The run is over after a failed fetch or an empty extraction and a failed
\* persistence write, every identifier having been dispatched.
C7_Witness ==
    /\ cpc = "done"
    /\ ret = "nil"
    /\ failCounter + skipCounter = 1
    /\ saveFailedFirst
    /\ id > maxID

\* The worker of w leaves scrapeProfile.
FetchStep(w) == pc[w] = "fetch" /\ pc'[w] # "fetch"

\* C8 as stated: a fetch is counted as failed exactly when the request
\* fails or the status is not 2xx.
C8_Original ==
    [][\A w \in IDs : FetchStep(w) =>
        (class'[w] = "failed")
            = (resp'[w].getErr \/ resp'[w].status \notin 200..299)]_vars

\* C8 amended: a fetch is counted as failed exactly when the request fails,
\* the status is not 200, or the body cannot be read; every other response
\* is handed to the extractor and not counted as failed.
C8_FailedIffNot200 ==
    [][\A w \in IDs : FetchStep(w) =>
        LET bad == \/ resp'[w].getErr
                   \/ resp'[w].status # 200
                   \/ resp'[w].readErr
        IN  /\ (class'[w] = "failed") = bad
            /\ failCounter' = failCounter + (IF bad THEN 1 ELSE 0)
            /\ bad => profile'[w] = NilProfile /\ pc'[w] = "exit"
            /\ ~bad => profile'[w] # NilProfile]_vars

\* A response with status 204 has been counted as failed.
C8_Witness ==
    \E w \in IDs :
        /\ class[w] = "failed"
        /\ resp[w].status = 204
        /\ failCounter = 1

\* C9: a result is skipped exactly when its identity is empty or the
\* placeholder of its own identifier; it then increments skipCounter and
\* nothing else, and is neither stored nor saved.
C9_EmptyOnlySkipped ==
    [][\A w \in IDs :
        /\ FetchStep(w) /\ class'[w] # "failed" =>
            /\ (class'[w] = "skipped")
                 = (profile'[w].Name \in {"", PlaceholderName(w)})
            /\ class'[w] = "skipped" =>
                /\ skipCounter' = skipCounter + 1
                /\ pc'[w] = "exit"
                /\ UNCHANGED <<successCounter, failCounter, newCounter,
                               updatedCounter, skippedCounter, profiles,
                               disk>>
        /\ class[w] = "skipped" /\ pc'[w] # pc[w] =>
            /\ pc'[w] = "done"
            /\ UNCHANGED <<counters, profiles, disk>>]_vars

\* Identifier 1 was skipped for yielding its own placeholder while the same
\* name, yielded by another identifier, is stored.
C9_Witness ==
    /\ class[1] = "skipped"
    /\ profile[1].Name = "Profile 1"
    /\ Has(profiles, "Profile 1")
    /\ profiles["Profile 1"].Score # 1

\* The rows of table rows that belong to profile pid, in order.
ItemsOf(rows, pid) ==
    LET mine == SelectSeq(rows, LAMBDA r : r[1] = pid)
    IN  [i \in 1..Len(mine) |-> mine[i][2]]

\* C10: InsertProfile never changes the created_at of an existing row; the
\* other columns and the pros and cons rows are those of the latest upsert;
\* a failed call changes nothing.
C10_UpsertKeepsCreatedAt ==
    [][LET p == dbCall'.arg
           n == p.Name
       IN  IF dbCall'.err
           THEN UNCHANGED <<dbProfiles, dbPros, dbCons>>
           ELSE /\ \A k \in DOMAIN dbProfiles :
                    /\ Has(dbProfiles', k)
                    /\ dbProfiles'[k].created_at = dbProfiles[k].created_at
                    /\ dbProfiles'[k].id = dbProfiles[k].id
                    /\ k # n => dbProfiles'[k] = dbProfiles[k]
                /\ DOMAIN dbProfiles' = DOMAIN dbProfiles \cup {n}
                /\ ~Has(dbProfiles, n) =>
                    dbProfiles'[n].created_at = p.CreatedAt
                /\ dbProfiles'[n].name = n
                /\ dbProfiles'[n].url = p.URL
                /\ dbProfiles'[n].verdict = p.Verdict
                /\ dbProfiles'[n].description = p.Description
                /\ dbProfiles'[n].score = p.Score
                /\ dbProfiles'[n].category = p.Category
                /\ dbProfiles'[n].image_url = p.ImageURL
                /\ dbProfiles'[n].updated_at = p.UpdatedAt
                /\ \A k \in DOMAIN dbProfiles' :
                    LET pid == dbProfiles'[k].id
                    IN  /\ ItemsOf(dbPros', pid) =
                             (IF k = n THEN p.Pros ELSE ItemsOf(dbPros, pid))
                        /\ ItemsOf(dbCons', pid) =
                             (IF k = n THEN p.Cons
                              ELSE ItemsOf(dbCons, pid))]_vars

\* An upsert over an existing row whose created_at differs from the one
\* passed; the row has the new columns and the old created_at.
C10_Witness ==
    /\ ~dbCall.err
    /\ Has(dbProfiles, dbCall.arg.Name)
    /\ dbProfiles[dbCall.arg.Name].created_at < dbCall.arg.CreatedAt
    /\ dbProfiles[dbCall.arg.Name].updated_at = dbCall.arg.UpdatedAt
    /\ dbProfiles[dbCall.arg.Name].category = "Film"
    /\ ItemsOf(dbPros, dbProfiles[dbCall.arg.Name].id) = <<"p2">>

\* The worker of w has downloaded its page and holds the result.
Downloaded(w) == pc[w] \in {"lock", "merge", "save", "exit"}

\* The result the worker of w holds is of a profile loaded from the previous
\* run, no merge of this run has touched c.profiles, and the source still
\* yields what is held.
HeldUnchanged(w) ==
    /\ newCounter = 0
    /\ updatedCounter = 0
    /\ profile[w].Name \in seenFirst
    /\ Has(profiles, profile[w].Name)
    /\ ~AnyFieldDiffers(profiles[profile[w].Name], profile[w])

\* C11: in incremental mode a profile held from the previous run and
\* unchanged at the source is not downloaded again.
C11_NoRefetch ==
    incrementalMode /\ run = "second" =>
        \A w \in IDs : ~(Downloaded(w) /\ HeldUnchanged(w))

\* What a lookup of name n in c.profiles gives.
Lookup(n) == IF Has(profiles, n) THEN profiles[n] ELSE NilProfile

\* C16: the merge of one result is atomic: at most one worker is between
\* its lookup and its write, c.profiles does not change under it, the record
\* it compares against is the one c.profiles holds when it writes, and a
\* result is classified new exactly when its identity is absent then; no
\* identity ever leaves c.profiles, so one result per identity is new.
C16_MergeAtomic ==
    [][/\ \A v, w \in IDs : pc[v] = "merge" /\ pc[w] = "merge" => v = w
       /\ \A w \in IDs :
            /\ pc[w] = "merge" => mu = w
            /\ pc[w] = "merge" /\ pc'[w] = "merge" => profiles' = profiles
            /\ MergeStep(w) =>
                /\ existingProfile[w] = Lookup(profile[w].Name)
                /\ (class'[w] = "new") = ~Has(profiles, profile[w].Name)
                /\ Has(profiles', profile[w].Name)
                /\ mu' = 0
       /\ DOMAIN profiles \subseteq DOMAIN profiles']_vars

\* In a run that started with no record, the result of identifier 1 was
\* classified new and the result of identifier 2, of the same identity, is
\* in its merge and compares against the record that merge wrote.
C16_Witness ==
    /\ ~incrementalMode
    /\ class[1] = "new"
    /\ pc[2] = "merge"
    /\ profile[2].Name = profile[1].Name
    /\ existingProfile[2] = profile[1]
    /\ profiles[profile[2].Name] = profile[1]

\* The workers started and not yet finished.
InFlight == {w \in IDs : pc[w] \notin {"idle", "done"}}

\* C17: at most cap(semaphore) workers are in flight, each holding one slot,
\* and a worker is started only by a step that takes a free slot.
C17_BoundedConcurrency ==
    [][/\ Cardinality(InFlight) = semaphore
       /\ semaphore <= slots
       /\ slots <= concurrentRequests
       /\ wg = semaphore
       /\ \A w \in IDs :
            pc[w] = "idle" /\ pc'[w] # "idle" =>
                /\ semaphore < slots
                /\ semaphore' = semaphore + 1
                /\ pc'[w] = "fetch"]_vars

\* Every slot is taken and the loop waits for one with an identifier left.
C17_Witness ==
    /\ cpc = "acquire"
    /\ id <= maxID
    /\ semaphore = slots
    /\ Cardinality(InFlight) = slots

\* The workers counted as a success and not yet classified.
Unclassified == {w \in IDs : pc[w] \in {"lock", "merge"}}

\* C18 as stated: only results classified new or updated count toward the
\* target, so a loop that stopped before the end of the range has that many.
C18_Original ==
    cpc = "done" /\ id <= maxID =>
        newCounter + updatedCounter >= totalProfiles

\* C18 amended: identifiers are dispatched in increasing order; the loop
\* stops at the first check that finds the range exhausted or successCounter
\* at the target, and dispatches nothing afterwards; successCounter counts
\* every result that is neither failed nor empty, unchanged ones included.
C18_EarlyStop ==
    [][/\ \A w \in IDs : (pc[w] = "idle") = (w >= id)
       /\ \A w \in IDs : pc[w] = "idle" /\ pc'[w] # "idle" =>
            w = id /\ id' = id + 1
       /\ successCounter = newCounter + updatedCounter + skippedCounter
                            + Cardinality(Unclassified)
       /\ cpc = "check" /\ cpc' # "check" =>
            (cpc' = "wait") = (id > maxID \/ successCounter >= totalProfiles)
       /\ cpc \in {"wait", "done"} => id' = id /\ cpc' # "acquire"]_vars

\* The loop stopped before the end of the range on a result that was
\* classified unchanged: nothing was new or updated.
C18_Witness ==
    /\ cpc = "done"
    /\ id <= maxID
    /\ successCounter >= totalProfiles
    /\ skippedCounter >= 1
    /\ newCounter + updatedCounter = 0

\* ScrapeAll has returned and nothing is held.
Finished ==
    /\ cpc = "done"
    /\ ret = "nil"
    /\ mu = 0
    /\ semaphore = 0
    /\ wg = 0
    /\ \A w \in IDs : pc[w] \in {"idle", "done"}

\* C19: under fair scheduling every run ends with ScrapeAll returned, every
\* slot and the mutex released; wg.Wait() returns only when every dispatched
\* worker has finished, and a worker that has finished holds nothing.
C19_Terminates ==
    /\ <>[]Finished
    /\ [][/\ cpc # "done" /\ cpc' = "done" =>
                /\ cpc = "wait"
                /\ \A w \in IDs : pc[w] \in {"idle", "done"}
          /\ \A w \in IDs : pc[w] # "done" /\ pc'[w] = "done" =>
                /\ mu # w
                /\ semaphore' = semaphore - 1
                /\ wg' = wg - 1]_vars

\* The run is over with nothing held, after a worker went through the merge
\* and the save and another left on an error or a skip.
C19_Witness ==
    /\ Finished
    /\ id > maxID
    /\ newCounter + updatedCounter >= 1
    /\ failCounter + skipCounter >= 1

\* The workers whose scrapeProfile call has returned.
Returned == {w \in IDs : pc[w] \notin {"idle", "fetch"}}

\* C20: each identifier is dispatched at most once and fetched at most once
\* in a run: a worker is started only from idle, by the loop at its own
\* identifier, never leaves done, and every returned fetch is counted once
\* as a success, a failure or a skip; a failed one only exits.
C20_NoRetry ==
    [][/\ \A w \in IDs :
            /\ pc[w] # "fetch" /\ pc'[w] = "fetch" => pc[w] = "idle" /\ w = id
            /\ pc[w] # "idle" => pc'[w] # "idle"
            /\ pc[w] = "done" => pc'[w] = "done"
            /\ class[w] = "failed" =>
                /\ pc[w] = "exit"
                /\ pc'[w] \in {"exit", "done"}
                /\ failCounter' >= failCounter
       /\ id' >= id
       /\ successCounter + failCounter + skipCounter = Cardinality(Returned)
       /\ failCounter' \in {failCounter, failCounter + 1}]_vars

\* The run is over with every identifier dispatched: one fetch failed and was
\* counted once, the other was not failed.
C20_Witness ==
    /\ cpc = "done"
    /\ id > maxID
    /\ failCounter = 1
    /\ successCounter + skipCounter = maxID - 1
    /\ \A w \in IDs : pc[w] = "done"

\* The pieces of text between bullet glyphs, each trimmed.
BulletPieces(t) == Trimmed(Split(t, <<Bullet>>))

\* The positions of the pieces of at least 3 bytes that equal no earlier piece.
KeptAt(p) ==
    {i \in 1..Len(p) : GoLen(p[i]) >= 3 /\ \A j \in 1..i - 1 : p[j] # p[i]}

\* The pieces at those positions, in order.
Kept(p) ==
    LET nth(k) ==
            CHOOSE i \in KeptAt(p) :
                Cardinality({j \in KeptAt(p) : j < i}) = k - 1
    IN  [k \in 1..Cardinality(KeptAt(p)) |-> p[nth(k)]]

\* Nothing in the text is a delimiter to any branch of splitByBullets.
NoDelimiter(t) ==
    /\ ~hasBullets(TrimSpace(t))
    /\ ~Contains(TrimSpace(t), <<"\n">>)
    /\ NumberStarts(TrimSpace(t)) = {}
    /\ ~LooksLikeSentences(TrimSpace(t))

\* C13 as stated: a text with bullet glyphs gives its trimmed pieces, one item
\* per piece, in order, and a text with no delimiter gives the whole text as
\* its only item.
C13_Original ==
    spc = "done" =>
        /\ Contains(text, <<Bullet>>) =>
               items = SelectSeq(BulletPieces(text), LAMBDA part : part # <<>>)
        /\ NoDelimiter(text) => items = <<text>>

\* C13: a text with bullet glyphs gives its trimmed pieces of at least 3
\* bytes, each once, in the order of their first occurrence (the trimmed text
\* itself when every piece is blank); a text with no delimiter gives the
\* trimmed text as its only item when that has at least 3 bytes, and nothing
\* otherwise.
C13_BulletSplit ==
    spc = "done" =>
        /\ Contains(text, <<Bullet>>) =>
               items = IF \A i \in 1..Len(BulletPieces(text)) :
                               BulletPieces(text)[i] = <<>>
                        THEN <<TrimSpace(text)>>
                        ELSE Kept(BulletPieces(text))
        /\ NoDelimiter(text) =>
               items = IF GoLen(TrimSpace(text)) >= 3
                        THEN <<TrimSpace(text)>>
                        ELSE <<>>

C13_Witness ==
    /\ spc = "done"
    /\ text = WithBullets("Xxx", "Xxx", "Yyy")
    /\ items = <<Runes("Xxx"), Runes("Yyy")>>

\* item is one of the split pieces; the position of its first occurrence.
FirstAt(item, p) == Least({k \in 1..Len(p) : p[k] = item})

\* C14 as stated: every returned item is trimmed and at least 3 characters
\* long, no two are equal, and they come in the order of their first
\* occurrence among the split pieces.
C14_Original ==
    spc = "done" =>
        /\ \A i \in 1..Len(items) :
               /\ items[i] = TrimSpace(items[i])
               /\ Len(items[i]) >= 3
               /\ \E k \in 1..Len(Pieces(text)) : Pieces(text)[k] = items[i]
        /\ \A i, j \in 1..Len(items) :
               i < j =>
                   /\ items[i] # items[j]
                   /\ FirstAt(items[i], Pieces(text))
                          < FirstAt(items[j], Pieces(text))

\* C14: every returned item is trimmed and at least 3 bytes long, no two are
\* equal, and they come in the order of their first occurrence among the
\* split pieces.
C14_FinalPass ==
    spc = "done" =>
        /\ \A i \in 1..Len(items) :
               /\ items[i] = TrimSpace(items[i])
               /\ GoLen(items[i]) >= 3
               /\ \E k \in 1..Len(Pieces(text)) : Pieces(text)[k] = items[i]
        /\ \A i, j \in 1..Len(items) :
               i < j =>
                   /\ items[i] # items[j]
                   /\ FirstAt(items[i], Pieces(text))
                          < FirstAt(items[j], Pieces(text))

C14_Witness ==
    /\ spc = "done"
    /\ Len(items) >= 2
    /\ \E i, j \in 1..Len(Pieces(text)) :
           /\ i < j
           /\ Pieces(text)[i] = Pieces(text)[j]
           /\ GoLen(Pieces(text)[i]) >= 3

\* The meta description, trimmed, is a name followed by phrase.
MetaIs(phrase) ==
    /\ doc.hasMeta
    /\ Contains(TrimSpace(doc.meta), Runes("is "))
    /\ HasSuffix(TrimSpace(doc.meta), Runes(phrase))
    /\ Len(TrimSpace(doc.meta)) > Len(Runes(phrase))

\* C12: a meta description "<name> is a Jew." yields the verdict "Jew" and a
\* meta description "<name> is Not a Jew." yields the verdict "Not a Jew".
C12_MetaVerdict ==
    ppc = "done" =>
        /\ MetaIs(" is a Jew.") => parsed.Verdict = Runes("Jew")
        /\ MetaIs(" is Not a Jew.") => parsed.Verdict = Runes("Not a Jew")

\* The document of the scenario: the title, no meta description, and the
\* container profileBody holding the text.
IsScenario(d) ==
    /\ d.title = ScenarioTitle
    /\ ~d.hasMeta
    /\ Len(d.elements) = 1
    /\ d.elements[1].id = "profileBody"
    /\ d.elements[1].text = ScenarioText

\* C15: from the document of the scenario parseProfile returns the name
\* "Test Person", the verdict "Jew", the description that ends before
\* "Pros:", one pros item and one cons item.
C15_EndToEnd ==
    ppc = "done" /\ IsScenario(doc) =>
        /\ parsed.Name = Runes("Test Person")
        /\ parsed.Verdict = Runes("Jew")
        /\ parsed.Description = Runes("Test Person was notable.")
        /\ Len(parsed.Pros) = 1
        /\ Len(parsed.Cons) = 1

\* The sums of the two groups of counters.
Outcomes == successCounter + failCounter + skipCounter
Classes == newCounter + updatedCounter + skippedCounter

\* C21: a completed fetch adds one to exactly one of the success, failed and
\* skipped counters, a merge adds one to exactly one of the new, updated and
\* unchanged counters, and when ScrapeAll prints the final counts success +
\* failed + skipped is the number of identifiers dispatched and new + updated
\* + unchanged is success.
C21_FullAccounting ==
    /\ [][\A w \in IDs :
            /\ FetchStep(w) =>
                   /\ Outcomes' = Outcomes + 1
                   /\ successCounter' >= successCounter
                   /\ failCounter' >= failCounter
                   /\ skipCounter' >= skipCounter
                   /\ Classes' = Classes
            /\ MergeStep(w) =>
                   /\ Classes' = Classes + 1
                   /\ newCounter' >= newCounter
                   /\ updatedCounter' >= updatedCounter
                   /\ skippedCounter' >= skippedCounter
                   /\ Outcomes' = Outcomes]_vars
    /\ [](cpc = "done" =>
            /\ Outcomes = Cardinality({w \in IDs : pc[w] # "idle"})
            /\ Classes = successCounter)

C21_Witness ==
    /\ cpc = "done"
    /\ failCounter + skipCounter >= 1
    /\ successCounter >= 1
    /\ Outcomes = maxID

\* C23 as stated: at the end of a run that started with an empty set and in
\* which every saveProfileToJSON succeeded, the file of every identity in the
\* set holds the record the set holds for it.
C23_PersistedMatchesMemory ==
    (cpc = "done" /\ ~incrementalMode /\ ~saveFailedFirst) =>
        \A n \in DOMAIN profiles :
            /\ FileName(n) \in DOMAIN disk
            /\ disk[FileName(n)] = Marshal(profiles[n])

C22_LogNeverBlocks ==
    /\ []~logFault
    /\ [][/\ \A w \in IDs : MergeStep(w) /\ logCh = logCapacity =>
                /\ logDropped' = logDropped + 1
                /\ logCh' = logCh
                /\ pc'[w] \in {"save", "exit"}
          /\ ~logOpen /\ cpc # "start" =>
                logCh' <= logCh /\ logDropped' = logDropped]_vars
    /\ <>[](cpc = "done" /\ \A w \in IDs : pc[w] \in {"idle", "done"})

\* The log file was not created, a message was dropped, and the run ended.
C22_Witness ==
    /\ cpc = "done"
    /\ logFile = "failed"
    /\ logCh = logCapacity
    /\ logDropped >= 1

\* C30 as stated: when ScrapeAll has returned and closed the log file, every
\* message logCh accepted has been written: logCh holds none.
C30_LogDelivered == cpc = "done" /\ logFile = "closed" => logCh = 0

\* The parse is past the step that sets the field.
NameSet == ppc \notin {"idle", "name"}
VerdictSet == NameSet /\ ppc # "verdict"
DescriptionSet == VerdictSet /\ ppc # "description"

\* The elements the page rule scans that carry a "verdict:" label or are a
\* short heading naming the verdict, and what each of them gives.
Labelled(d) ==
    SelectSeq(Find(d, {"font", "div", "b", "p"}),
              LAMBDA e :
                  /\ Contains(ToLower(e.text), Runes("verdict"))
                  /\ PageVerdictStep(d, e, <<>>) # <<>>)

\* C25 as stated: a verdict from the meta description stands; failing that,
\* a verdict from a "verdict:" label or a short heading stands and no
\* exact-match phrase replaces it; the image path is used only when the
\* rules before it gave nothing.
C25_VerdictCascade ==
    VerdictSet =>
        /\ MetaVerdict(doc) # <<>> => parsed.Verdict = MetaVerdict(doc)
        /\ MetaVerdict(doc) = <<>> /\ Labelled(doc) # <<>> =>
                \E k \in 1..Len(Labelled(doc)) :
                    parsed.Verdict
                        = PageVerdictStep(doc, Labelled(doc)[k], <<>>)

\* The text of the first h1 of d, trimmed.
FirstHeading(d) ==
    IF Find(d, {"h1"}) = <<>> THEN <<>> ELSE TrimSpace(Find(d, {"h1"})[1].text)

\* C26 as stated: the name is the first segment of the title without the
\* prefix of the site, or, when that is empty, the text of the first h1.
C26_IdentityCascade ==
    NameSet =>
        parsed.Name = IF NameFromTitle(doc) # <<>>
                      THEN NameFromTitle(doc)
                      ELSE FirstHeading(doc)

\* The text of the container profileBody of d, trimmed, when d has one.
ContainerText(d) ==
    LET profileBody == SelectSeq(d.elements, LAMBDA e : e.id = "profileBody")
    IN  IF profileBody = <<>> THEN <<>> ELSE TrimSpace(profileBody[1].text)

\* Where each label occurs in t, in lower case.
LabelPlaces(t) ==
    [l \in {"verdict:", "pros:", "cons:"} |->
        Occurrences(ToLower(t), Runes(l))]

\* t cut at the first place any label occurs at.
CutAtEarliest(t) ==
    LET places == UNION {LabelPlaces(t)[l] : l \in DOMAIN LabelPlaces(t)}
    IN  IF places = {} THEN t ELSE SubSeq(t, 1, Least(places) - 1)

\* t cut at the least of the last places of the labels, a label whose last
\* place is the start of t left out.
CutAtLast(t) ==
    LET last == {Greatest(LabelPlaces(t)[l]) :
                    l \in {l \in DOMAIN LabelPlaces(t) :
                               LabelPlaces(t)[l] \ {1} # {}}}
    IN  IF last = {} THEN t ELSE SubSeq(t, 1, Least(last) - 1)

ProsConsSet == DescriptionSet /\ ppc # "proscons"

\* C29 as stated: every entry of pros and of cons is longer than 3
\* characters and no list holds an entry twice.
C29_Original ==
    ProsConsSet =>
        \A list \in {parsed.Pros, parsed.Cons} :
            /\ \A i \in 1..Len(list) : Len(list[i]) > 3
            /\ \A i, j \in 1..Len(list) : list[i] = list[j] => i = j

\* C29 amended: every entry of pros and of cons is longer than 3 bytes and
\* no list holds an entry twice.
C29_ProsConsEntries ==
    ProsConsSet =>
        \A list \in {parsed.Pros, parsed.Cons} :
            /\ \A i \in 1..Len(list) : list[i] # <<>> /\ GoLen(list[i]) > 3
            /\ \A i, j \in 1..Len(list) : list[i] = list[j] => i = j

\* The inline label gave an entry, the list items gave another and the
\* item equal to the first was left out.
C29_Witness ==
    /\ ProsConsSet
    /\ Len(doc.elements) = 2
    /\ doc.elements[2].tag = "ul"
    /\ parsed.Pros = <<Runes("kind man"), Runes("the pros x")>>

\* The category of the first entry of categoryClues, in the order the table
\* is written in, whose clue the description holds in lower case.
FirstDeclared(description) ==
    IF Clues(ToLower(description)) = {}
    THEN <<>>
    ELSE Runes(categoryClues[Least(Clues(ToLower(description)))][2])

\* C28 as stated: with no explicit category and no keyword that names one,
\* the category is the one of the first entry of the table, in the order of
\* its declaration, whose clue occurs in the description.
C28_CategoryDeterministic ==
    /\ ppc \in {"image", "done"}
    /\ ExplicitCategory(Find(doc, {"span", "div", "p", "strong", "b", "h3"}),
                        <<>>) = <<>>
    /\ KeywordCategory(Split(doc.keywords, Runes(","))) = <<>>
    /\ parsed.Description # <<>>
    => parsed.Category = FirstDeclared(parsed.Description)

====
